---- MODULE Spec2Model ----
(***************************************************************************)
(* Canary API gateway: the request-admission and dispatch pipeline.        *)
(*                                                                         *)
(*   internal/middleware/middleware.go  WithRecover, WithRequestID,        *)
(*       WithLogging, WithGzip, WithThrottle, WithRateLimit, TokenBucket   *)
(*   internal/proxy/proxy.go            retryingRoundTripper, sleepBackoff *)
(*   internal/router/router.go          handleRoot, handleAPI              *)
(*   apig.go                            the middleware chain               *)
(*                                                                         *)
(* Three specifications share the variables:                               *)
(*   Spec        concurrent requests through the whole middleware chain    *)
(*   SpecRT      one call of retryingRoundTripper.RoundTrip, all inputs    *)
(*   SpecBucket  one TokenBucket driven by a monotone clock                *)
(***************************************************************************)
EXTENDS Integers, Sequences, FiniteSets, TLC

\* ------------------------------------------------------------------ bounds
\* largest configured RETRY_ATTEMPTS explored (0 is included: it is clamped)
MaxAttempts == 3

\* fixed-point scale: token counts, burst and rate are held in 1/Unit of a
\* token (rate per clock tick of one second), so that fractional rates and
\* fractional token balances are exact
Unit == 2
\* NewTokenBucket inputs explored, in 1/Unit: 0 is the value that is clamped
MaxRate == 3
MaxBurst == 4
\* last clock tick, and the number of allow calls on the standalone bucket
MaxTime == 3
MaxCalls == 5
\* last clock tick while requests pass through the middleware chain
MaxClock == 1
\* the per-key limiter with its sweeper: clock ticks in one period of the
\* cleanupLoop ticker, last clock tick, largest limiter_ttl in ticks, and
\* the number of admission attempts
SweepPeriod == 2
MaxLimClock == 4
MaxTtl == 2
MaxLimCalls == 2
\* the lock-level limiter: last clock tick and number of admission attempts
MaxLkClock == 2
MaxLkCalls == 2
\* the largest attempt index sleepBackoff is called with
MaxRetryIndex == 40
\* admission attempts of the one client that asks in turn
MaxEvictCalls == 4

\* ------------------------------------------------------------- variables
VARIABLES
    tb,         \* a standalone TokenBucket
    tbClock,    \* the clock its callers read
    tbHist,     \* the allow calls made on it: timestamp and answer
    cfg,        \* the Config snapshot, fixed after startup
    upstream,   \* the statuses the upstream services answer with
    req,        \* req[r]: the inbound request (method, body, headers ...)
    pc,         \* pc[r]: where the goroutine serving r is
    ctx,        \* ctx[r]: the values of the context the inner stages see
    cancelled,  \* cancelled[r]: r.Context() is done
    rt,         \* rt[r]: locals of RoundTrip for r
    log,        \* log[r]: the events logger.Log received while serving r
    inflight,   \* len(sem.ch): permits of the Semaphore that are taken
    held,       \* held[r]: WithThrottle's deferred sem.release() is pending
    clock,      \* time.Now(), in seconds
    global,     \* the global TokenBucket
    perIP,      \* PerKeyTokenBucket.buckets: client key -> TokenBucket
    rl,         \* rl[r]: locals of WithRateLimit (now, ip)
    rs,         \* rs[r]: the response writers (http, logging, gzip) of r
    panicking,  \* panicking[r]: "no", or the panic r's goroutine raised: "early"
                \* (nothing written yet) or "late" (status already written)
    out,        \* out[r]: the outbound request the director prepared
    lim,        \* the per-key limiter seen as objects: the cleanupLoop
                \* goroutine, the buckets made so far, the admission callers
    lk,         \* the mutexes of the per-key limiter (p.mu and each b.mu)
                \* and where cleanupLoop is in its pass
    goarch      \* the architecture the binary was built for

vars == <<tb, tbClock, tbHist, cfg, upstream, req, pc, ctx, cancelled, rt, log,
          inflight, held, clock, global, perIP, rl, rs, panicking, out, lim, lk, goarch>>

pipeVars == <<inflight, held, clock, global, perIP, rl, rs, panicking, out>>

\* state no stage of the middleware chain touches
bucketVars == <<tb, tbClock, tbHist, lim, lk, goarch>>

Reqs == {1, 2}

\* --------------------------------------------------------------- helpers
Max(a, b) == IF a > b THEN a ELSE b

RECURSIVE Pow2(_)
Pow2(n) == IF n <= 0 THEN 1 ELSE 2 * Pow2(n - 1)

\* one structured log event; fields an event does not carry are 0 / ""
Event(msg, rid, attempt, status, kind) ==
    [msg |-> msg, rid |-> rid, attempt |-> attempt, status |-> status, kind |-> kind]

\* ------------------------------------------------------- request context
\* A context either carries the request_id value or it does not.
NoRidCtx == [hasRid |-> FALSE, rid |-> ""]

RidCtx(id) == [hasRid |-> TRUE, rid |-> id]

GetRequestID(c) == IF c.hasRid THEN c.rid ELSE ""

\* -------------------------------------------- middleware.go: TokenBucket
Min_uncapped(a, b) == b

\* func min(a, b float64) float64
Min(a, b) == IF a < b THEN a ELSE b

\* NewTokenBucket(rate, burst, ttl) called at instant now
NewTokenBucket(rate, burst, ttl, now) ==
    LET rate1  == IF rate <= 0 THEN Unit ELSE rate
        burst1 == IF burst < Unit THEN Unit ELSE burst
    IN  [rate |-> rate1, burst |-> burst1, tokens |-> burst1,
         last |-> now, ttl |-> ttl, lastSeen |-> now]

\* the bucket after b.allow(now), between Lock and Unlock
AllowRefill(b, now) ==
    LET elapsed == now - b.last
        b1 == IF elapsed > 0
              THEN [b EXCEPT !.tokens = Min(b.burst, b.tokens + elapsed * b.rate),
                             !.last = now]
              ELSE b
    IN  [b1 EXCEPT !.lastSeen = now]

Allow_free(b, now) ==
    LET b2 == AllowRefill(b, now)
    IN  [ok |-> b2.tokens >= Unit, b |-> b2]

Allow_overdraw(b, now) ==
    LET b2 == AllowRefill(b, now)
    IN  [ok |-> b2.tokens >= Unit, b |-> [b2 EXCEPT !.tokens = @ - Unit]]

\* b.allow(now): the answer, and the bucket it leaves
Allow(b, now) ==
    LET b2 == AllowRefill(b, now)
    IN  IF b2.tokens >= Unit
        THEN [ok |-> TRUE, b |-> [b2 EXCEPT !.tokens = @ - Unit]]
        ELSE [ok |-> FALSE, b |-> b2]

\* ------------------------------------------------------------ proxy.go
Methods == {"GET", "HEAD", "OPTIONS", "PUT", "DELETE", "POST", "PATCH"}

isIdempotent_post(method) == method \in {"GET", "HEAD", "OPTIONS", "PUT", "DELETE", "POST"}

isIdempotent_none(method) == FALSE

isIdempotent(method) == method \in {"GET", "HEAD", "OPTIONS", "PUT", "DELETE"}

ClampAttempts_extra(a) == IF a < 1 THEN 1 ELSE a + 1

\* attempts := rt.attempts; if attempts < 1 { attempts = 1 }
ClampAttempts(a) == IF a < 1 THEN 1 ELSE a

\* what the inner transport can answer: a transport error or a response
\* with a status; http.Transport fails a request whose context is done
UpstreamStatuses == {200, 404, 500, 599}

TransportErr == [err |-> TRUE, status |-> 0]

Response(status) == [err |-> FALSE, status |-> status]

TransportOutcomes(ctxDone) ==
    IF ctxDone THEN {TransportErr}
    ELSE {TransportErr} \cup { Response(st) : st \in upstream }

Is5xx_narrow(status) == status >= 500 /\ status < 599

\* resp.StatusCode >= 500 && resp.StatusCode <= 599
Is5xx(status) == status >= 500 /\ status <= 599

\* base * 2^attempt > max, for base > 0 and max > 0, in milliseconds
Exceeds(base, attempt, max) == attempt >= 31 \/ Pow2(attempt) > max \div base

\* sleepBackoff: the delay it arms the timer with, in milliseconds, while
\* float64(base) * mult is a value time.Duration can hold
BackoffDelay(base, max, attempt) ==
    LET b == IF base <= 0 THEN 100 ELSE base
        m == IF max <= 0 THEN 2000 ELSE max
    IN  IF Exceeds(b, attempt, m) THEN m ELSE b * Pow2(attempt)

\* float64(base) * mult is 2^63 nanoseconds or more, so time.Duration (an
\* int64 of nanoseconds) cannot hold it: base * 2^attempt > 9223372036854
\* milliseconds, which is base * 2^(attempt - 13) > 1125899906
Overflows(base, attempt) ==
    LET b == IF base <= 0 THEN 100 ELSE base
    IN  /\ attempt >= 13
        /\ (attempt - 13 >= 31 \/ Pow2(attempt - 13) > 1125899906 \div b)

\* math.MinInt64 nanoseconds, the result of an out-of-range conversion on
\* amd64, as the least duration the model writes down
MinDuration == -2147483647

\* d := time.Duration(float64(base) * mult); if d > max { d = max }: the
\* conversion of a value out of range is implementation-dependent: amd64
\* yields math.MinInt64 (which is not above max), arm64 saturates at
\* math.MaxInt64 (which is capped to max)
TimerDelay(base, max, attempt) ==
    IF Overflows(base, attempt)
    THEN IF goarch = "amd64" THEN MinDuration
         ELSE IF max <= 0 THEN 2000 ELSE max
    ELSE BackoffDelay(base, max, attempt)

\* locals of RoundTrip before the call
RT0 ==
    [attempts |-> 0,        \* the clamped attempts
     canRetry |-> FALSE,
     i        |-> 0,        \* loop index
     calls    |-> 0,        \* invocations of rt.next.RoundTrip so far
     tries    |-> << >>,    \* per invocation: context state, body sent, outcome
     sleeps   |-> << >>,    \* the delays sleepBackoff was entered with
     result   |-> "none",   \* "none", "err" or "resp"
     status   |-> 0,        \* status of the response returned
     bodyUsed |-> FALSE,    \* req.Body has been read by an earlier try
     gbFailed |-> FALSE]    \* req.GetBody() returned an error

\* a call of sleepBackoff: its delay and which case of the select woke it
Sleep(d) == [delay |-> d, woke |-> "pending"]

Try(ctxDone, body, outcome, drained) ==
    [ctxDone |-> ctxDone, body |-> body, outcome |-> outcome, drained |-> drained]

Discarded_leak(t) == t

\* io.Copy(io.Discard, resp.Body); resp.Body.Close() on the try's response
Discarded(t) == [t EXCEPT !.drained = TRUE]

\* the body a try carries: none, a fresh one from GetBody, or req.Body itself
\* (shared by every clone), which is spent once a try has read it
TryBody(q, used) ==
    IF ~q.hasBody THEN "none"
    ELSE IF q.getBody # "nil" THEN "fresh"
    ELSE IF used THEN "spent" ELSE "first"

\* GetBody() results: a factory that can fail may fail on any call
GetBodyResults(q) ==
    IF q.hasBody /\ q.getBody = "flaky" THEN {"ok", "fail"} ELSE {"ok"}

\* RoundTrip, lines 136-145: clamp, canRetry, the forwarded-once shortcut
RoundTripEnter(r) ==
    /\ pc[r] = "roundtrip"
    /\ LET canRetry == isIdempotent(req[r].method)
           direct   == ~canRetry /\ req[r].getBody = "nil" /\ req[r].hasBody
       IN /\ rt' = [rt EXCEPT ![r] = [RT0 EXCEPT !.attempts = ClampAttempts(cfg.attempts),
                                                 !.canRetry = canRetry]]
          /\ pc' = [pc EXCEPT ![r] = IF direct THEN "rt_direct" ELSE "rt_try"]
    /\ UNCHANGED <<bucketVars, pipeVars, cfg, upstream, req, ctx, cancelled, log>>

\* return rt.next.RoundTrip(req)
RTDirect(r) ==
    /\ pc[r] = "rt_direct"
    /\ \E o \in TransportOutcomes(cancelled[r]) :
          rt' = [rt EXCEPT ![r].calls = @ + 1,
                           ![r].tries = Append(@, Try(cancelled[r], "first", o, FALSE)),
                           ![r].bodyUsed = TRUE,
                           ![r].result = IF o.err THEN "err" ELSE "resp",
                           ![r].status = o.status]
    /\ pc' = [pc EXCEPT ![r] = "rt_ret"]
    /\ UNCHANGED <<bucketVars, pipeVars, cfg, upstream, req, ctx, cancelled, log>>

\* one iteration of the loop, lines 148-198
RTTry(r) ==
    /\ pc[r] = "rt_try"
    /\ rt[r].i < rt[r].attempts
    /\ LET s == rt[r]
           q == req[r]
       IN \E gb \in GetBodyResults(q) :
          IF q.hasBody /\ q.getBody # "nil" /\ gb = "fail"
          THEN \* body, err := req.GetBody(); return nil, err
               /\ rt' = [rt EXCEPT ![r].result = "err", ![r].gbFailed = TRUE]
               /\ pc' = [pc EXCEPT ![r] = "rt_ret"]
               /\ log' = log
          ELSE \E o \in TransportOutcomes(cancelled[r]) :
               LET body  == TryBody(q, s.bodyUsed)
                   lastI == s.i = s.attempts - 1
                   s1    == [s EXCEPT !.calls = @ + 1, !.bodyUsed = q.hasBody]
                   add(drained) == Append(s.tries, Try(cancelled[r], body, o, drained))
               IN  IF o.err
                   THEN IF ~s.canRetry \/ lastI
                        THEN /\ rt' = [rt EXCEPT ![r] = [s1 EXCEPT !.tries = add(FALSE),
                                                                   !.result = "err"]]
                             /\ pc' = [pc EXCEPT ![r] = "rt_ret"]
                             /\ log' = log
                        ELSE /\ rt' = [rt EXCEPT ![r] = [s1 EXCEPT !.tries = add(FALSE),
                                 !.sleeps = Append(@, Sleep(TimerDelay(cfg.baseDelay, cfg.maxDelay, s.i)))]]
                             /\ pc' = [pc EXCEPT ![r] = "rt_sleep"]
                             /\ log' = [log EXCEPT ![r] = Append(@,
                                   Event("proxy_retry", GetRequestID(ctx[r]), s.i + 1, 0, ""))]
                   ELSE IF Is5xx(o.status) /\ s.canRetry /\ s.i < s.attempts - 1
                        THEN \* io.Copy(io.Discard, resp.Body); resp.Body.Close()
                             /\ rt' = [rt EXCEPT ![r] = [s1 EXCEPT
                                 !.tries = Append(s.tries, Discarded(Try(cancelled[r], body, o, FALSE))),
                                 !.sleeps = Append(@, Sleep(TimerDelay(cfg.baseDelay, cfg.maxDelay, s.i)))]]
                             /\ pc' = [pc EXCEPT ![r] = "rt_sleep"]
                             /\ log' = [log EXCEPT ![r] = Append(@,
                                   Event("proxy_retry_5xx", GetRequestID(ctx[r]), s.i + 1, o.status, ""))]
                        ELSE /\ rt' = [rt EXCEPT ![r] = [s1 EXCEPT !.tries = add(FALSE),
                                                                   !.result = "resp",
                                                                   !.status = o.status]]
                             /\ pc' = [pc EXCEPT ![r] = "rt_ret"]
                             /\ log' = log
    /\ UNCHANGED <<bucketVars, pipeVars, cfg, upstream, req, ctx, cancelled>>

\* sleepBackoff returns, on <-ctx.Done() or on <-timer.C (either when both
\* are ready); RoundTrip then executes `continue`
RTSleepReturn(r) ==
    /\ pc[r] = "rt_sleep"
    /\ \E woke \in (IF cancelled[r] THEN {"ctx", "timer"} ELSE {"timer"}) :
          rt' = [rt EXCEPT ![r].i = @ + 1,
                           ![r].sleeps[Len(rt[r].sleeps)].woke = woke]
    /\ pc' = [pc EXCEPT ![r] = "rt_try"]
    /\ UNCHANGED <<bucketVars, pipeVars, cfg, upstream, req, ctx, cancelled, log>>

\* the client goes away or a deadline passes: r.Context() becomes done.
\* The context is read by sem.acquire, by the transport and by sleepBackoff
\* only, so cancellation is taken where one of them is about to read it.
CancelObserved == {"throttle", "rt_direct", "rt_try", "rt_sleep"}

Cancel(r) ==
    /\ pc[r] \in CancelObserved
    /\ ~cancelled[r]
    /\ cancelled' = [cancelled EXCEPT ![r] = TRUE]
    /\ UNCHANGED <<bucketVars, pipeVars, cfg, upstream, req, pc, ctx, rt, log>>

\* ------------------------------------------- net/http response writers
\* body chunks as the client receives them
Plain(msg) == [enc |-> "plain", data |-> <<msg>>]

GzHeader == [enc |-> "gzip-header", data |-> << >>]

GzData(buf) == [enc |-> "gzip-data", data |-> buf]

NoHeaders == [ce |-> FALSE, cl |-> FALSE, retryAfter |-> "", xRequestID |-> ""]

\* the writers of one request before anything is written
RS0 ==
    [w  |-> [wrote |-> FALSE, status |-> 0, hdr |-> NoHeaders, sent |-> NoHeaders,
             body |-> << >>, superfluous |-> 0],
     lw |-> [status |-> 0, bytes |-> 0],
     gz |-> [active |-> FALSE, started |-> FALSE, buf |-> << >>, closed |-> FALSE]]

\* http.ResponseWriter.WriteHeader: the first call fixes status and headers,
\* a later call is superfluous and changes nothing the client sees
BaseWriteHeader(w, code) ==
    IF w.wrote THEN [w EXCEPT !.superfluous = @ + 1]
    ELSE [w EXCEPT !.wrote = TRUE, !.status = code, !.sent = w.hdr]

\* http.ResponseWriter.Write: WriteHeader(200) first if nothing was written
BaseWrite(w, chunk) ==
    LET w1 == IF w.wrote THEN w ELSE BaseWriteHeader(w, 200)
    IN  [w1 EXCEPT !.body = Append(@, chunk)]

\* loggingResponseWriter.WriteHeader / Write
LwWriteHeader(s, code) ==
    [s EXCEPT !.lw.status = code, !.w = BaseWriteHeader(s.w, code)]

LwWrite(s, chunk) ==
    [s EXCEPT !.lw.bytes = @ + 1, !.w = BaseWrite(s.w, chunk)]

\* gzip.Writer.Write: the gzip header goes out with the first Write, the
\* data is held by the compressor until Close
GzWrite(s, msg) ==
    LET s1 == IF s.gz.started THEN s ELSE LwWrite([s EXCEPT !.gz.started = TRUE], GzHeader)
    IN  [s1 EXCEPT !.gz.buf = Append(@, msg)]

\* gzip.Writer.Close: header if no Write came before, then data and trailer
GzClose(s) ==
    IF s.gz.closed THEN s
    ELSE LET s1 == IF s.gz.started THEN s ELSE LwWrite([s EXCEPT !.gz.started = TRUE], GzHeader)
         IN  [LwWrite(s1, GzData(s1.gz.buf)) EXCEPT !.gz.closed = TRUE, !.gz.buf = << >>]

\* the writer the stages inside WithGzip hold: gzipResponseWriter when the
\* client accepts gzip, else the loggingResponseWriter
InnerWriteHeader(s, code) == LwWriteHeader(s, code)

InnerWrite(s, msg) == IF s.gz.active THEN GzWrite(s, msg) ELSE LwWrite(s, Plain(msg))

\* http.Error(w, msg, code) on the inner writer, and on the outermost one
InnerError(s, msg, code) == InnerWrite(InnerWriteHeader(s, code), msg)

OuterError(s, msg, code) ==
    [s EXCEPT !.w = BaseWrite(BaseWriteHeader(s.w, code), Plain(msg))]

\* ------------------------------------------------------ ExtractClientIP
ValidIPs == {"10.0.0.1", "10.0.0.2", "::1"}

\* net.ParseIP(s) != nil
ParseIP(a) == a \in ValidIPs

\* the white space a header value can hold
IsSpace(c) == c \in {" ", "\t"}

RECURSIVE TrimLeft(_)
TrimLeft(a) ==
    IF Len(a) > 0 /\ IsSpace(SubSeq(a, 1, 1)) THEN TrimLeft(SubSeq(a, 2, Len(a))) ELSE a

RECURSIVE TrimRight(_)
TrimRight(a) ==
    IF Len(a) > 0 /\ IsSpace(SubSeq(a, Len(a), Len(a)))
    THEN TrimRight(SubSeq(a, 1, Len(a) - 1)) ELSE a

\* strings.TrimSpace
TrimSpace(a) == TrimRight(TrimLeft(a))

\* the positions of the character c in the string a
Positions(a, c) == { i \in 1..Len(a) : SubSeq(a, i, i) = c }

\* strings.Split(a, sep) for a one-character sep
RECURSIVE Split(_, _)
Split(a, sep) ==
    IF Positions(a, sep) = {} THEN <<a>>
    ELSE LET i == CHOOSE x \in Positions(a, sep) : \A y \in Positions(a, sep) : x <= y
         IN  <<SubSeq(a, 1, i - 1)>> \o Split(SubSeq(a, i + 1, Len(a)), sep)

\* the parts ExtractClientIP sees of the X-Forwarded-For value h: none when
\* the header is absent or empty, else strings.Split(h, ",")
HeaderEntries(h) == IF h = "" THEN << >> ELSE Split(h, ",")

\* net.SplitHostPort(a): "host:port" and "[host]:port" split, anything
\* else (no port, too many colons) is an error and a is kept whole
SplitHostPort(a) ==
    LET colons == Positions(a, ":")
        close  == Positions(a, "]")
    IN  IF Len(a) > 0 /\ SubSeq(a, 1, 1) = "[" /\ close # {}
        THEN LET j == CHOOSE x \in close : \A y \in close : x <= y
             IN  IF j < Len(a) /\ SubSeq(a, j + 1, j + 1) = ":"
                    /\ \A y \in colons : y <= j + 1
                 THEN [hostport |-> TRUE, host |-> SubSeq(a, 2, j - 1)]
                 ELSE [hostport |-> FALSE, host |-> a]
        ELSE IF Cardinality(colons) = 1
        THEN LET i == CHOOSE x \in colons : TRUE
             IN  [hostport |-> TRUE, host |-> SubSeq(a, 1, i - 1)]
        ELSE [hostport |-> FALSE, host |-> a]

ExtractClientIP_later(q) ==
    LET ok == { i \in 1..Len(q.xff) : ParseIP(TrimSpace(q.xff[i])) }
    IN  IF ok # {} THEN TrimSpace(q.xff[CHOOSE i \in ok : \A j \in ok : i <= j])
        ELSE IF ParseIP(q.remote.host) THEN q.remote.host
        ELSE ""

\* r.RemoteAddr is "host:port" (SplitHostPort succeeds) or a bare string
ExtractClientIP(q) ==
    IF q.xff # << >> /\ ParseIP(TrimSpace(q.xff[1])) THEN TrimSpace(q.xff[1])
    ELSE IF q.remote.hostport /\ ParseIP(q.remote.host) THEN q.remote.host
    ELSE IF ~q.remote.hostport /\ ParseIP(q.remote.host) THEN q.remote.host
    ELSE ""

\* strings.Contains(r.Header.Get("Accept-Encoding"), "gzip")
ContainsGzip(a) == a \in {"gzip", "deflate, gzip", "gzip;q=0"}

\* ------------------------------------------------------------- router.go
\* paths are sequences of characters
PRoot    == <<"/">>
PApi     == <<"/", "a", "p", "i">>
PApiAuth == <<"/", "a", "p", "i", "/", "a", "u", "t", "h">>
PApiExample == <<"/", "a", "p", "i", "/", "e", "x", "a", "m", "p", "l", "e">>
PApiOnboarding ==
    <<"/", "a", "p", "i", "/", "o", "n", "b", "o", "a", "r", "d", "i", "n", "g">>

HasPrefix_exact(a, prefix) == a = prefix

\* strings.HasPrefix
HasPrefix(a, prefix) ==
    Len(a) >= Len(prefix) /\ SubSeq(a, 1, Len(prefix)) = prefix

\* http.ServeMux with the patterns "/" and "/api/": the subtree root without
\* its slash is redirected, the longest matching pattern wins
MuxRoute(path) ==
    IF path = PApi THEN "redirect"
    ELSE IF HasPrefix(path, PApi \o <<"/">>) THEN "handleAPI"
    ELSE "handleRoot"

\* handleRoot / handleAPI: what the router does with the request
Route(path) ==
    LET m == MuxRoute(path)
    IN  IF m = "redirect" THEN "redirect"
        ELSE IF m = "handleRoot" THEN (IF path # PRoot THEN "notfound" ELSE "health")
        ELSE IF HasPrefix(path, PApiAuth) THEN "auth"
        ELSE IF HasPrefix(path, PApiExample) THEN "example"
        ELSE "notfound"

\* -------------------------------------------------- middleware.go: chain
\* capacity of the channel NewSemaphore makes
SemCapacity(max) == IF max < 1 THEN 1 ELSE max

\* uuid.New().String(): a fresh value for every call
NewUUID(r) == IF r = 1 THEN "uuid-1" ELSE "uuid-2"

RL0 == [now |-> 0, ip |-> ""]

Out0 == [upstream |-> "", host |-> "", path |-> << >>, realIP |-> "", xff |-> << >>]

\* the limiter objects at startup: cleanupLoop waits for its first tick, no
\* bucket has been made, no caller is inside PerKeyTokenBucket.allow
Lim0 ==
    [swept    |-> 0,         \* ticker ticks cleanupLoop has served
     sweeping |-> FALSE,     \* cleanupLoop is between time.Now() and p.mu.Lock()
     now      |-> 0,         \* the now of the pass under way
     made     |-> << >>,     \* per bucket ever made, by number: key, tokens, burst
     idOf     |-> << >>,     \* key -> number of the bucket the map holds for it
     orphans  |-> << >>,     \* number -> bucket, for buckets deleted from the map
     touched  |-> << >>,     \* number -> instant the bucket was made or last asked
     held     |-> [r \in Reqs |-> 0],   \* the bucket get() returned to r
     evicted  |-> {},        \* per deletion: key, number, last_seen, ttl, now
     calls    |-> << >>]     \* per allow call: key, number, now, answer

\* a sync.Mutex nobody holds, and the holder that is cleanupLoop's goroutine
\* (admission callers are named by their request)
Free == 0

Sweeper == Cardinality(Reqs) + 1

Lk0 ==
    [mapMu  |-> Free,       \* holder of p.mu
     mu     |-> << >>,      \* bucket number -> holder of its b.mu
     sw     |-> "idle",     \* cleanupLoop: idle, map_lock, range, b_lock, b_held
     now    |-> 0,          \* the now of the pass
     todo   |-> {},         \* keys the range has still to yield
     cur    |-> "",         \* the key under inspection
     seen   |-> << >>,      \* key -> the lastSeen read in this pass
     gone   |-> {},         \* keys deleted in this pass
     passes |-> 0]          \* passes completed

\* pc values at which the goroutine is inside the stage named
SetPc(r, p) == pc' = [pc EXCEPT ![r] = p]

Logged(r, e) == log' = [log EXCEPT ![r] = Append(@, e)]

\* WithRecover: the handler is entered and its recover is deferred
WithRecover(r) ==
    /\ pc[r] = "idle"
    /\ SetPc(r, "requestid")
    /\ UNCHANGED <<bucketVars, pipeVars, cfg, upstream, req, ctx, cancelled, rt, log>>

\* WithRequestID: adopt the inbound id or make one, put it on the context
\* of the request handed inward and in the response header
WithRequestID(r) ==
    /\ pc[r] = "requestid"
    /\ LET id == IF req[r].xRequestID = "" THEN NewUUID(r) ELSE req[r].xRequestID
       IN /\ ctx' = [ctx EXCEPT ![r] = RidCtx(id)]
          /\ rs' = [rs EXCEPT ![r].w.hdr.xRequestID = id]
    /\ SetPc(r, "logging")
    /\ UNCHANGED <<bucketVars, cfg, upstream, req, cancelled, rt, log,
                   inflight, held, clock, global, perIP, rl, panicking, out>>

\* WithLogging up to next.ServeHTTP(lw, r)
WithLogging(r) ==
    /\ pc[r] = "logging"
    /\ rs' = [rs EXCEPT ![r].lw = [status |-> 200, bytes |-> 0]]
    /\ Logged(r, Event("request_started", GetRequestID(ctx[r]), 0, 0, ""))
    /\ SetPc(r, "gzip")
    /\ UNCHANGED <<bucketVars, cfg, upstream, req, ctx, cancelled, rt,
                   inflight, held, clock, global, perIP, rl, panicking, out>>

\* WithGzip up to next.ServeHTTP
WithGzip(r) ==
    /\ pc[r] = "gzip"
    /\ rs' = IF ContainsGzip(req[r].acceptEncoding)
             THEN [rs EXCEPT ![r].w.hdr.ce = TRUE, ![r].w.hdr.cl = FALSE,
                             ![r].gz.active = TRUE]
             ELSE rs
    /\ SetPc(r, "throttle")
    /\ UNCHANGED <<bucketVars, cfg, upstream, req, ctx, cancelled, rt, log,
                   inflight, held, clock, global, perIP, rl, panicking, out>>

\* WithThrottle, sem.acquire: case s.ch <- struct{}{}
ThrottleAcquire(r) ==
    /\ pc[r] = "throttle"
    /\ inflight < SemCapacity(cfg.maxInFlight)
    /\ inflight' = inflight + 1
    /\ held' = [held EXCEPT ![r] = TRUE]
    /\ SetPc(r, "ratelimit")
    /\ UNCHANGED <<bucketVars, cfg, upstream, req, ctx, cancelled, rt, log,
                   clock, global, perIP, rl, rs, panicking, out>>

ThrottleCancelled_through(r) ==
    /\ pc[r] = "throttle"
    /\ cancelled[r]
    /\ rs' = [rs EXCEPT ![r] = InnerError(@, "request cancelled", 408)]
    /\ SetPc(r, "ratelimit")
    /\ UNCHANGED <<bucketVars, cfg, upstream, req, ctx, cancelled, rt, log,
                   inflight, held, clock, global, perIP, rl, panicking, out>>

\* WithThrottle, sem.acquire: case <-ctx.Done(), then 408
ThrottleCancelled(r) ==
    /\ pc[r] = "throttle"
    /\ cancelled[r]
    /\ rs' = [rs EXCEPT ![r] = InnerError(@, "request cancelled", 408)]
    /\ SetPc(r, "ret_gzip")
    /\ UNCHANGED <<bucketVars, cfg, upstream, req, ctx, cancelled, rt, log,
                   inflight, held, clock, global, perIP, rl, panicking, out>>

\* WithRateLimit: now := time.Now(); ip := ExtractClientIP(r)
RateLimitEnter(r) ==
    /\ pc[r] = "ratelimit"
    /\ LET ip == ExtractClientIP(req[r])
       IN  rl' = [rl EXCEPT ![r] = [now |-> clock, ip |-> IF ip = "" THEN "unknown" ELSE ip]]
    /\ SetPc(r, "rl_global")
    /\ UNCHANGED <<bucketVars, cfg, upstream, req, ctx, cancelled, rt, log,
                   inflight, held, clock, global, perIP, rs, panicking, out>>

RateLimited_passes(r, kind, msg) ==
    /\ Logged(r, Event("rate_limit_exceeded", GetRequestID(ctx[r]), 0, 0, kind))
    /\ rs' = [rs EXCEPT ![r] = InnerError([@ EXCEPT !.w.hdr.retryAfter = "1"], msg, 429)]
    /\ SetPc(r, "router")

RateLimited_bare(r, kind, msg) ==
    /\ Logged(r, Event("rate_limit_exceeded", GetRequestID(ctx[r]), 0, 0, kind))
    /\ rs' = [rs EXCEPT ![r] = InnerError(@, msg, 429)]
    /\ SetPc(r, "ret_throttle")

\* the 429 both limiters answer with
RateLimited(r, kind, msg) ==
    /\ Logged(r, Event("rate_limit_exceeded", GetRequestID(ctx[r]), 0, 0, kind))
    /\ rs' = [rs EXCEPT ![r] = InnerError([@ EXCEPT !.w.hdr.retryAfter = "1"], msg, 429)]
    /\ SetPc(r, "ret_throttle")

\* WithRateLimit: global.allow(now)
GlobalAllow(r) ==
    /\ pc[r] = "rl_global"
    /\ LET a == Allow(global, rl[r].now)
       IN /\ global' = a.b
          /\ IF a.ok
             THEN SetPc(r, "rl_perip") /\ UNCHANGED <<log, rs>>
             ELSE RateLimited(r, "global", "rate limit exceeded (global)")
    /\ UNCHANGED <<bucketVars, cfg, upstream, req, ctx, cancelled, rt,
                   inflight, held, clock, perIP, rl, panicking, out>>

\* PerKeyTokenBucket.get: the bucket of the key, made on first use
PerKeyGet(m, key, now) ==
    IF key \in DOMAIN m THEN m
    ELSE [k \in DOMAIN m \cup {key} |->
            IF k = key THEN NewTokenBucket(cfg.perIPRPS, cfg.perIPBurst, cfg.ttl, now)
            ELSE m[k]]

\* WithRateLimit: perIP.allow(ip, now)
PerIPAllow(r) ==
    /\ pc[r] = "rl_perip"
    /\ LET key == rl[r].ip
           m   == PerKeyGet(perIP, key, clock)
           a   == Allow(m[key], rl[r].now)
       IN /\ perIP' = [m EXCEPT ![key] = a.b]
          /\ IF a.ok
             THEN SetPc(r, "router") /\ UNCHANGED <<log, rs>>
             ELSE RateLimited(r, "per-ip", "rate limit exceeded (per-ip)")
    /\ UNCHANGED <<bucketVars, cfg, upstream, req, ctx, cancelled, rt,
                   inflight, held, clock, global, rl, panicking, out>>

\* rt.Handler(): the mux, handleRoot and handleAPI up to the proxy call
Router(r) ==
    /\ pc[r] = "router"
    /\ LET to == Route(req[r].path)
       IN  CASE to = "health" ->
                  /\ rs' = [rs EXCEPT ![r] = InnerWrite(InnerWriteHeader(@, 200), "ok")]
                  /\ SetPc(r, "ret_throttle")
             [] to = "notfound" ->
                  /\ rs' = [rs EXCEPT ![r] = InnerError(@, "404 page not found", 404)]
                  /\ SetPc(r, "ret_throttle")
             [] to = "redirect" ->
                  \* http.Redirect writes the short body for GET only
                  /\ rs' = [rs EXCEPT ![r] =
                               IF req[r].method = "GET"
                               THEN InnerWrite(InnerWriteHeader(@, 301), "Moved Permanently")
                               ELSE InnerWriteHeader(@, 301)]
                  /\ SetPc(r, "ret_throttle")
             [] OTHER ->
                  /\ rs' = rs
                  /\ SetPc(r, "proxy")
    /\ UNCHANGED <<bucketVars, cfg, upstream, req, ctx, cancelled, rt, log,
                   inflight, held, clock, global, perIP, rl, panicking, out>>

\* the Director of NewReverseProxy, on the clone ReverseProxy hands it
Director(r) ==
    /\ pc[r] = "proxy"
    /\ LET q  == req[r]
           ip == ExtractClientIP(q)
       IN  out' = [out EXCEPT ![r] =
                [upstream |-> Route(q.path),
                 host     |-> Route(q.path),
                 path     |-> q.path,
                 realIP   |-> ip,
                 xff      |-> IF ip = "" THEN q.xff ELSE Append(q.xff, ip)]]
    /\ SetPc(r, "roundtrip")
    /\ UNCHANGED <<bucketVars, cfg, upstream, req, ctx, cancelled, rt, log,
                   inflight, held, clock, global, perIP, rl, rs, panicking>>

\* ReverseProxy after RoundTrip: the ErrorHandler of NewReverseProxy on an
\* error, else the upstream headers (Content-Length among them) are copied
\* and the upstream status is written
ProxyRespond(r) ==
    /\ pc[r] = "rt_ret"
    /\ IF rt[r].result = "err"
       THEN /\ Logged(r, Event("proxy_error", GetRequestID(ctx[r]), 0, 0, ""))
            /\ rs' = [rs EXCEPT ![r] = InnerError(@, "bad gateway", 502)]
            /\ SetPc(r, "ret_throttle")
       ELSE /\ rs' = [rs EXCEPT ![r] = InnerWriteHeader([@ EXCEPT !.w.hdr.cl = TRUE], rt[r].status)]
            /\ SetPc(r, "proxy_copy")
            /\ log' = log
    /\ UNCHANGED <<bucketVars, cfg, upstream, req, ctx, cancelled, rt,
                   inflight, held, clock, global, perIP, rl, panicking, out>>

\* ReverseProxy copies the upstream body to the client
ProxyCopy(r) ==
    /\ pc[r] = "proxy_copy"
    /\ rs' = [rs EXCEPT ![r] = InnerWrite(@, "upstream-body")]
    /\ SetPc(r, "ret_throttle")
    /\ UNCHANGED <<bucketVars, cfg, upstream, req, ctx, cancelled, rt, log,
                   inflight, held, clock, global, perIP, rl, panicking, out>>

\* a stage inside WithRateLimit panics: a fault before anything is written,
\* or ReverseProxy's panic(http.ErrAbortHandler) when the body copy fails
\* after the status went out. The deferred calls then run innermost first.
PanicPoints == {"rl_global", "router", "proxy", "proxy_copy"}

Panic(r) ==
    /\ pc[r] \in PanicPoints
    /\ panicking' = [panicking EXCEPT ![r] = IF rs[r].w.wrote THEN "late" ELSE "early"]
    /\ SetPc(r, "ret_throttle")
    /\ UNCHANGED <<bucketVars, cfg, upstream, req, ctx, cancelled, rt, log,
                   inflight, held, clock, global, perIP, rl, rs, out>>

SemRelease_leak(n) == n

\* sem.release(), deferred by WithThrottle: a non-blocking receive
SemRelease(n) == IF n > 0 THEN n - 1 ELSE n

ThrottleReturn_lost(r) ==
    /\ pc[r] = "ret_throttle"
    /\ held' = [held EXCEPT ![r] = FALSE]
    /\ SetPc(r, "ret_gzip")
    /\ UNCHANGED <<bucketVars, cfg, upstream, req, ctx, cancelled, rt, log,
                   inflight, clock, global, perIP, rl, rs, panicking, out>>

ThrottleReturn(r) ==
    /\ pc[r] = "ret_throttle"
    /\ inflight' = SemRelease(inflight)
    /\ held' = [held EXCEPT ![r] = FALSE]
    /\ SetPc(r, "ret_gzip")
    /\ UNCHANGED <<bucketVars, cfg, upstream, req, ctx, cancelled, rt, log,
                   clock, global, perIP, rl, rs, panicking, out>>

\* gz.Close(), deferred by WithGzip when it wrapped the writer
GzipReturn(r) ==
    /\ pc[r] = "ret_gzip"
    /\ rs' = IF rs[r].gz.active THEN [rs EXCEPT ![r] = GzClose(@)] ELSE rs
    /\ SetPc(r, "ret_logging")
    /\ UNCHANGED <<bucketVars, cfg, upstream, req, ctx, cancelled, rt, log,
                   inflight, held, clock, global, perIP, rl, panicking, out>>

\* WithLogging after next.ServeHTTP returned; a panic skips these lines
LoggingReturn(r) ==
    /\ pc[r] = "ret_logging"
    /\ IF panicking[r] # "no"
       THEN log' = log
       ELSE Logged(r, Event("request_completed", GetRequestID(ctx[r]), 0, rs[r].lw.status, ""))
    /\ SetPc(r, "ret_recover")
    /\ UNCHANGED <<bucketVars, pipeVars, cfg, upstream, req, ctx, cancelled, rt>>

\* the function WithRecover deferred: r there is the request WithRecover
\* received, whose context WithRequestID did not touch
RecoverReturn(r) ==
    /\ pc[r] = "ret_recover"
    /\ IF panicking[r] # "no"
       THEN /\ Logged(r, Event("panic_recovered", GetRequestID(NoRidCtx), 0, 0, ""))
            /\ rs' = [rs EXCEPT ![r] = OuterError(@, "internal server error", 500)]
       ELSE UNCHANGED <<log, rs>>
    /\ SetPc(r, "done")
    /\ UNCHANGED <<bucketVars, cfg, upstream, req, ctx, cancelled, rt,
                   inflight, held, clock, global, perIP, rl, panicking, out>>

\* time passes
\* time.Now() is called by WithRateLimit on entry and by NewTokenBucket when
\* get() finds no bucket for the key; time passes unobserved elsewhere
ClockRead(r) ==
    \/ pc[r] = "ratelimit"
    \/ pc[r] = "rl_perip" /\ rl[r].ip \notin DOMAIN perIP

Tick ==
    /\ clock < MaxClock
    /\ \E r \in Reqs : ClockRead(r)
    /\ clock' = clock + 1
    /\ UNCHANGED <<bucketVars, cfg, upstream, req, pc, ctx, cancelled, rt, log,
                   inflight, held, global, perIP, rl, rs, panicking, out>>

\* ---------------------------------------------------------------- SpecRT
\* One call of RoundTrip on request 1, for every method, body, body factory
\* and configured attempts; the context may be cancelled at any moment.
DefaultReq ==
    [method |-> "GET", hasBody |-> FALSE, getBody |-> "nil", path |-> PRoot,
     acceptEncoding |-> "", xRequestID |-> "", xff |-> << >>,
     remote |-> [hostport |-> TRUE, host |-> "10.0.0.1"]]

\* (Body, GetBody): a body factory exists only for a request with a body
BodyKinds == {<<FALSE, "nil">>, <<TRUE, "nil">>, <<TRUE, "ok">>, <<TRUE, "flaky">>}

RTRequests ==
    { [DefaultReq EXCEPT !.method = m, !.hasBody = k[1], !.getBody = k[2]] :
        m \in Methods, k \in BodyKinds }

DefaultCfg ==
    [attempts |-> 3, baseDelay |-> 150, maxDelay |-> 1500, maxInFlight |-> 256,
     globalRPS |-> 200 * Unit, globalBurst |-> 400 * Unit,
     perIPRPS |-> 10 * Unit, perIPBurst |-> 20 * Unit, ttl |-> 600]

InitPipe ==
    /\ inflight = 0
    /\ held = [r \in Reqs |-> FALSE]
    /\ clock = 0
    /\ global = NewTokenBucket(cfg.globalRPS, cfg.globalBurst, cfg.ttl, 0)
    /\ perIP = << >>
    /\ rl = [r \in Reqs |-> RL0]
    /\ rs = [r \in Reqs |-> RS0]
    /\ panicking = [r \in Reqs |-> "no"]
    /\ out = [r \in Reqs |-> Out0]
    /\ lim = Lim0
    /\ lk = Lk0

InitRT ==
    /\ tbClock = 0
    /\ tb = NewTokenBucket(Unit, Unit, 0, 0)
    /\ tbHist = << >>
    /\ goarch = "amd64"
    /\ cfg \in { [DefaultCfg EXCEPT !.attempts = a] : a \in 0..MaxAttempts }
    /\ upstream = UpstreamStatuses
    /\ req \in { [r \in Reqs |-> IF r = 1 THEN q ELSE DefaultReq] : q \in RTRequests }
    /\ pc = [r \in Reqs |-> IF r = 1 THEN "roundtrip" ELSE "idle"]
    /\ ctx = [r \in Reqs |-> IF r = 1 THEN RidCtx("id-a") ELSE NoRidCtx]
    /\ cancelled = [r \in Reqs |-> FALSE]
    /\ rt = [r \in Reqs |-> RT0]
    /\ log = [r \in Reqs |-> << >>]
    /\ InitPipe

NextRT ==
    \E r \in Reqs :
        \/ RoundTripEnter(r)
        \/ RTDirect(r)
        \/ RTTry(r)
        \/ RTSleepReturn(r)
        \/ Cancel(r)

SpecRT == InitRT /\ [][NextRT]_vars

\* ------------------------------------------------------------------ Spec
\* Concurrent requests through the chain apig.go builds:
\* WithRecover(WithRequestID(WithLogging(WithGzip(WithThrottle(
\*     WithRateLimit(router -> reverse proxy -> RoundTrip))))))
ReqA == DefaultReq

ReqB == [DefaultReq EXCEPT !.path = PApiAuth \o <<"/", "l">>, !.acceptEncoding = "gzip",
                           !.xRequestID = "id-a", !.xff = <<" 10.0.0.2 ">>]

ReqC == [DefaultReq EXCEPT !.method = "POST", !.hasBody = TRUE, !.path = PApiAuth]

ReqD == [DefaultReq EXCEPT !.path = PApi \o <<"/", "u">>, !.acceptEncoding = "deflate, gzip"]

ReqE == [DefaultReq EXCEPT !.method = "PUT", !.hasBody = TRUE,
                           !.path = PApiExample \o <<"/", "t">>, !.xRequestID = "id-a",
                           !.remote = [hostport |-> FALSE, host |-> "pipe"]]

PipelineRequests == <<ReqA, ReqB, ReqC, ReqD, ReqE>>

\* one token of global burst with a roomy per-key bucket, and the reverse;
\* a gate of one permit (0 is clamped to 1), and a gate wider than that
PipelineConfigs ==
    { [DefaultCfg EXCEPT !.attempts = 2, !.maxInFlight = 0,
                         !.globalRPS = 1, !.globalBurst = Unit,
                         !.perIPRPS = 1, !.perIPBurst = 2 * Unit, !.ttl = 1],
      [DefaultCfg EXCEPT !.attempts = 2, !.maxInFlight = 2,
                         !.globalRPS = 1, !.globalBurst = 2 * Unit,
                         !.perIPRPS = 0, !.perIPBurst = 0, !.ttl = 1] }

Init ==
    /\ tbClock = 0
    /\ tb = NewTokenBucket(Unit, Unit, 0, 0)
    /\ tbHist = << >>
    /\ goarch = "amd64"
    /\ cfg \in PipelineConfigs
    \* the upstream answers 200 or the transport fails; SpecRT covers the
    \* other statuses of RoundTrip
    /\ upstream = {200}
    \* the requests are interchangeable: one order of each pair is enough
    /\ \E i, j \in 1..Len(PipelineRequests) :
          /\ i <= j
          /\ req = [r \in Reqs |-> IF r = 1 THEN PipelineRequests[i] ELSE PipelineRequests[j]]
    /\ pc = [r \in Reqs |-> "idle"]
    /\ ctx = [r \in Reqs |-> NoRidCtx]
    /\ cancelled = [r \in Reqs |-> FALSE]
    /\ rt = [r \in Reqs |-> RT0]
    /\ log = [r \in Reqs |-> << >>]
    /\ InitPipe

Next ==
    \/ Tick
    \/ \E r \in Reqs :
        \/ WithRecover(r)
        \/ WithRequestID(r)
        \/ WithLogging(r)
        \/ WithGzip(r)
        \/ ThrottleAcquire(r)
        \/ ThrottleCancelled(r)
        \/ RateLimitEnter(r)
        \/ GlobalAllow(r)
        \/ PerIPAllow(r)
        \/ Router(r)
        \/ Director(r)
        \/ RoundTripEnter(r)
        \/ RTDirect(r)
        \/ RTTry(r)
        \/ RTSleepReturn(r)
        \/ ProxyRespond(r)
        \/ ProxyCopy(r)
        \/ Panic(r)
        \/ ThrottleReturn(r)
        \/ GzipReturn(r)
        \/ LoggingReturn(r)
        \/ RecoverReturn(r)
        \/ Cancel(r)

Spec == Init /\ [][Next]_vars

\* -------------------------------------------------------------- SpecGate
\* The concurrency gate under a stream of requests: two connections, each
\* sending its next request when the last was answered, against a gate of
\* one permit. The inner stages are the rate limiter and the router's own
\* answer to GET /.
\* the server reads the next request of the connection and calls the
\* handler for it, with a new context and a new response writer
Again(r) ==
    /\ pc[r] = "done"
    /\ pc' = [pc EXCEPT ![r] = "idle"]
    /\ ctx' = [ctx EXCEPT ![r] = NoRidCtx]
    /\ cancelled' = [cancelled EXCEPT ![r] = FALSE]
    /\ log' = [log EXCEPT ![r] = << >>]
    /\ rl' = [rl EXCEPT ![r] = RL0]
    /\ rs' = [rs EXCEPT ![r] = RS0]
    /\ panicking' = [panicking EXCEPT ![r] = "no"]
    /\ out' = [out EXCEPT ![r] = Out0]
    /\ UNCHANGED <<bucketVars, cfg, upstream, req, rt, inflight, held, clock,
                   global, perIP>>

InitGate ==
    /\ tbClock = 0
    /\ tb = NewTokenBucket(Unit, Unit, 0, 0)
    /\ tbHist = << >>
    /\ goarch = "amd64"
    \* max_in_flight 0 (clamped to 1) and 1: one permit for two connections
    /\ cfg \in { [DefaultCfg EXCEPT !.maxInFlight = n,
                                     !.globalRPS = 1, !.globalBurst = Unit,
                                     !.perIPRPS = 1, !.perIPBurst = Unit, !.ttl = 1] :
                    n \in {0, 1} }
    /\ upstream = {200}
    /\ req = [r \in Reqs |-> DefaultReq]
    /\ pc = [r \in Reqs |-> "idle"]
    /\ ctx = [r \in Reqs |-> NoRidCtx]
    /\ cancelled = [r \in Reqs |-> FALSE]
    /\ rt = [r \in Reqs |-> RT0]
    /\ log = [r \in Reqs |-> << >>]
    /\ InitPipe

\* the steps of the goroutine serving r
GateStep(r) ==
    \/ WithRecover(r)
    \/ WithRequestID(r)
    \/ WithLogging(r)
    \/ WithGzip(r)
    \/ ThrottleAcquire(r)
    \/ ThrottleCancelled(r)
    \/ RateLimitEnter(r)
    \/ GlobalAllow(r)
    \/ PerIPAllow(r)
    \/ Router(r)
    \/ ThrottleReturn(r)
    \/ GzipReturn(r)
    \/ LoggingReturn(r)
    \/ RecoverReturn(r)

NextGate ==
    \/ Tick
    \/ \E r \in Reqs :
        \/ GateStep(r)
        \/ Panic(r)
        \/ Cancel(r)
        \/ Again(r)

\* a goroutine that can run does run, and a sender parked on the full
\* channel is handed the slot a receive frees: the runtime keeps parked
\* senders in a queue and a receive completes the send of the first
SpecGateFair ==
    /\ InitGate
    /\ [][NextGate]_vars
    /\ \A r \in Reqs : WF_vars(GateStep(r)) /\ SF_vars(ThrottleAcquire(r))

\* --------------------------------------------------------------- SpecOne
\* One request through the whole chain, for every path class, method, body,
\* Accept-Encoding and configured attempts, against an upstream that may
\* answer any of the statuses, 429 among them.
GatewayStatuses == UpstreamStatuses \cup {429}

OnePaths ==
    { PRoot, <<"/", "x">>, PApi, PApi \o <<"/">>, PApi \o <<"/", "u">>,
      PApiAuth, PApiAuth \o <<"/", "l">>, PApiAuth \o <<"x">>,
      PApiExample \o <<"/", "t">>, PApiOnboarding \o <<"/", "p">> }

\* (method, Body): a server request never has a GetBody
OneKinds == {<<"GET", FALSE>>, <<"POST", TRUE>>, <<"PUT", TRUE>>}

OneEncodings == {"", "br", "deflate, gzip"}

OneRequests ==
    { [DefaultReq EXCEPT !.method = k[1], !.hasBody = k[2], !.path = p,
                         !.acceptEncoding = e] :
        k \in OneKinds, p \in OnePaths, e \in OneEncodings }

\* a bucket as earlier requests of the same instant leave it: all tokens taken
Drained(b) == [b EXCEPT !.tokens = 0]

\* the limiters as the request finds them: untouched, or the global bucket
\* drained, or a drained bucket for the client's key
OneLimiters ==
    LET g == NewTokenBucket(DefaultCfg.globalRPS, DefaultCfg.globalBurst, DefaultCfg.ttl, 0)
        k == NewTokenBucket(DefaultCfg.perIPRPS, DefaultCfg.perIPBurst, DefaultCfg.ttl, 0)
    IN  { <<g, << >> >>,
          <<Drained(g), << >> >>,
          <<g, [key \in {"10.0.0.1"} |-> Drained(k)]>> }

InitOne ==
    /\ tbClock = 0
    /\ tb = NewTokenBucket(Unit, Unit, 0, 0)
    /\ tbHist = << >>
    /\ goarch = "amd64"
    /\ cfg \in { [DefaultCfg EXCEPT !.attempts = a, !.maxInFlight = 1] : a \in 0..MaxAttempts }
    /\ upstream = GatewayStatuses
    /\ req \in { [r \in Reqs |-> IF r = 1 THEN q ELSE DefaultReq] : q \in OneRequests }
    /\ pc = [r \in Reqs |-> "idle"]
    /\ ctx = [r \in Reqs |-> NoRidCtx]
    /\ cancelled = [r \in Reqs |-> FALSE]
    /\ rt = [r \in Reqs |-> RT0]
    /\ log = [r \in Reqs |-> << >>]
    /\ inflight = 0
    /\ held = [r \in Reqs |-> FALSE]
    /\ clock = 0
    /\ \E l \in OneLimiters : global = l[1] /\ perIP = l[2]
    /\ rl = [r \in Reqs |-> RL0]
    /\ rs = [r \in Reqs |-> RS0]
    /\ panicking = [r \in Reqs |-> "no"]
    /\ out = [r \in Reqs |-> Out0]
    /\ lim = Lim0
    /\ lk = Lk0

NextOne ==
    \/ Tick
    \/ WithRecover(1)
    \/ WithRequestID(1)
    \/ WithLogging(1)
    \/ WithGzip(1)
    \/ ThrottleAcquire(1)
    \/ ThrottleCancelled(1)
    \/ RateLimitEnter(1)
    \/ GlobalAllow(1)
    \/ PerIPAllow(1)
    \/ Router(1)
    \/ Director(1)
    \/ RoundTripEnter(1)
    \/ RTDirect(1)
    \/ RTTry(1)
    \/ RTSleepReturn(1)
    \/ ProxyRespond(1)
    \/ ProxyCopy(1)
    \/ Panic(1)
    \/ ThrottleReturn(1)
    \/ GzipReturn(1)
    \/ LoggingReturn(1)
    \/ RecoverReturn(1)
    \/ Cancel(1)

SpecOne == InitOne /\ [][NextOne]_vars

\* ----------------------------------------------------------- SpecLimiter
\* The PerKeyTokenBucket with its cleanupLoop goroutine and two callers of
\* perIP.allow(ip, now). One clock tick is 1/SweepPeriod of the ticker's
\* minute; rate and ttl are per tick. The ticker fires at every multiple of
\* SweepPeriod and cleanupLoop serves a tick at the instant it fires.
LimKeys == {"10.0.0.1", "10.0.0.2"}

Expired_late(b, now) == b.ttl > 0 /\ now - b.lastSeen > b.ttl + 1

\* cleanupLoop: ttl > 0 && now.Sub(seen) > ttl
Expired(b, now) == b.ttl > 0 /\ now - b.lastSeen > b.ttl

\* a tick of the ticker is waiting to be served, or a pass is under way
SweepDue == lim.sweeping \/ clock >= (lim.swept + 1) * SweepPeriod

\* the bucket a caller holds: the one in the map, or one deleted from it
MappedKey(id) == { k \in DOMAIN perIP : lim.idOf[k] = id }

HeldBucket(id) ==
    IF MappedKey(id) # {} THEN perIP[CHOOSE k \in MappedKey(id) : TRUE]
    ELSE lim.orphans[id]

\* f with x mapped to v, x added to the domain if need be
Put(f, x, v) == [y \in DOMAIN f \cup {x} |-> IF y = x THEN v ELSE f[y]]

\* WithRateLimit: now := time.Now(); ip := ExtractClientIP(r)
LimCall(r) ==
    /\ pc[r] = "idle"
    /\ Len(lim.calls) + Cardinality({ x \in Reqs : pc[x] # "idle" }) < MaxLimCalls
    /\ rl' = [rl EXCEPT ![r] = [now |-> clock, ip |-> ExtractClientIP(req[r])]]
    /\ SetPc(r, "lim_get")
    /\ UNCHANGED <<goarch, lk, tb, tbClock, tbHist, lim, cfg, upstream, req, ctx, cancelled, rt, log,
                   inflight, held, clock, global, perIP, rs, panicking, out>>

\* PerKeyTokenBucket.get(key), under p.mu
LimGet(r) ==
    /\ pc[r] = "lim_get"
    /\ LET key == rl[r].ip
           new == key \notin DOMAIN perIP
           m   == PerKeyGet(perIP, key, clock)
           id  == IF new THEN Len(lim.made) + 1 ELSE lim.idOf[key]
       IN /\ perIP' = m
          /\ lim' = [lim EXCEPT
                        !.made = IF new
                                 THEN Append(@, [key |-> key, tokens |-> m[key].tokens,
                                                 burst |-> m[key].burst])
                                 ELSE @,
                        !.idOf = IF new THEN Put(@, key, id) ELSE @,
                        !.touched = IF new THEN Put(@, id, clock) ELSE @,
                        !.held[r] = id]
    /\ SetPc(r, "lim_allow")
    /\ UNCHANGED <<goarch, lk, tb, tbClock, tbHist, cfg, upstream, req, ctx, cancelled, rt, log,
                   inflight, held, clock, global, rl, rs, panicking, out>>

\* TokenBucket.allow(now) on the bucket get() returned, under b.mu
LimAllow(r) ==
    /\ pc[r] = "lim_allow"
    /\ LET id  == lim.held[r]
           b   == HeldBucket(id)
           a   == Allow(b, rl[r].now)
           rec == [key |-> rl[r].ip, id |-> id, now |-> rl[r].now,
                   mapped |-> MappedKey(id) # {}, ok |-> a.ok]
       IN IF MappedKey(id) # {}
          THEN /\ perIP' = [perIP EXCEPT ![rl[r].ip] = a.b]
               /\ lim' = [lim EXCEPT !.calls = Append(@, rec), !.held[r] = 0,
                                     !.touched[id] = clock]
          ELSE /\ perIP' = perIP
               /\ lim' = [lim EXCEPT !.calls = Append(@, rec), !.held[r] = 0,
                                     !.touched[id] = clock, !.orphans[id] = a.b]
    /\ SetPc(r, "idle")
    /\ UNCHANGED <<goarch, lk, tb, tbClock, tbHist, cfg, upstream, req, ctx, cancelled, rt, log,
                   inflight, held, clock, global, rl, rs, panicking, out>>

\* cleanupLoop: a tick arrives on t.C; now := time.Now()
SweepBegin ==
    /\ ~lim.sweeping
    /\ clock >= (lim.swept + 1) * SweepPeriod
    /\ lim' = [lim EXCEPT !.sweeping = TRUE, !.now = clock]
    /\ UNCHANGED <<goarch, lk, tb, tbClock, tbHist, cfg, upstream, req, pc, ctx, cancelled, rt, log,
                   inflight, held, clock, global, perIP, rl, rs, panicking, out>>

\* cleanupLoop: the pass over p.buckets between p.mu.Lock() and Unlock()
SweepPass ==
    /\ lim.sweeping
    /\ LET gone == { k \in DOMAIN perIP : Expired(perIP[k], lim.now) }
           orph == [i \in DOMAIN lim.orphans \cup { lim.idOf[k] : k \in gone } |->
                      IF i \in DOMAIN lim.orphans THEN lim.orphans[i]
                      ELSE perIP[CHOOSE k \in gone : lim.idOf[k] = i]]
       IN /\ perIP' = [k \in DOMAIN perIP \ gone |-> perIP[k]]
          /\ lim' = [lim EXCEPT
                        !.sweeping = FALSE,
                        !.swept = @ + 1,
                        !.orphans = orph,
                        !.evicted = @ \cup
                            { [key |-> k, id |-> lim.idOf[k],
                               lastSeen |-> perIP[k].lastSeen, ttl |-> perIP[k].ttl,
                               now |-> lim.now] : k \in gone }]
    /\ UNCHANGED <<goarch, lk, tb, tbClock, tbHist, cfg, upstream, req, pc, ctx, cancelled, rt, log,
                   inflight, held, clock, global, rl, rs, panicking, out>>

\* time passes, but not past a tick of the ticker that is still to be served
LimTick ==
    /\ clock < MaxLimClock
    /\ ~SweepDue
    /\ clock' = clock + 1
    /\ UNCHANGED <<bucketVars, cfg, upstream, req, pc, ctx, cancelled, rt, log,
                   inflight, held, global, perIP, rl, rs, panicking, out>>

\* limiter_ttl 0 switches eviction off
LimiterConfigs ==
    { [DefaultCfg EXCEPT !.perIPRPS = 1, !.perIPBurst = 2 * Unit, !.ttl = t] :
        t \in 0..MaxTtl }

InitLimiter ==
    /\ tbClock = 0
    /\ tb = NewTokenBucket(Unit, Unit, 0, 0)
    /\ tbHist = << >>
    /\ goarch = "amd64"
    /\ cfg \in LimiterConfigs
    /\ upstream = UpstreamStatuses
    /\ \E k \in LimKeys :
          req = [r \in Reqs |->
                   [DefaultReq EXCEPT !.remote.host = IF r = 1 THEN "10.0.0.1" ELSE k]]
    /\ pc = [r \in Reqs |-> "idle"]
    /\ ctx = [r \in Reqs |-> NoRidCtx]
    /\ cancelled = [r \in Reqs |-> FALSE]
    /\ rt = [r \in Reqs |-> RT0]
    /\ log = [r \in Reqs |-> << >>]
    /\ InitPipe

NextLimiter ==
    \/ LimTick
    \/ SweepBegin
    \/ SweepPass
    \/ \E r \in Reqs :
        \/ LimCall(r)
        \/ LimGet(r)
        \/ LimAllow(r)

SpecLimiter == InitLimiter /\ [][NextLimiter]_vars

\* ------------------------------------------------------------- SpecEvict
\* One client whose requests arrive one after the other, each finishing
\* perIP.allow before the next reads the clock, beside the sweeper: the
\* timestamps handed to allow never decrease.
\* WithRateLimit: now := time.Now(); ip := ExtractClientIP(r)
EvCall ==
    /\ pc[1] = "idle"
    /\ Len(lim.calls) < MaxEvictCalls
    /\ rl' = [rl EXCEPT ![1] = [now |-> clock, ip |-> ExtractClientIP(req[1])]]
    /\ SetPc(1, "lim_get")
    /\ UNCHANGED <<bucketVars, cfg, upstream, req, ctx, cancelled, rt, log,
                   inflight, held, clock, global, perIP, rs, panicking, out>>

NextEvict ==
    \/ LimTick
    \/ SweepBegin
    \/ SweepPass
    \/ EvCall
    \/ LimGet(1)
    \/ LimAllow(1)

SpecEvict == InitLimiter /\ [][NextEvict]_vars

\* ------------------------------------------------------------- SpecLocks
\* The per-key limiter at the grain of its mutexes: admission callers run
\* p.get (under p.mu) and then b.allow (under b.mu); cleanupLoop takes p.mu
\* for a whole pass and, inside it, each b.mu around its reads.
Holds(t) == { i \in DOMAIN lk.mu : lk.mu[i] = t }

\* WithRateLimit: now := time.Now(); the caller is about to call p.get
LkCall(r) ==
    /\ pc[r] = "idle"
    /\ Len(lim.calls) + Cardinality({ x \in Reqs : pc[x] # "idle" }) < MaxLkCalls
    /\ rl' = [rl EXCEPT ![r] = [now |-> clock, ip |-> ExtractClientIP(req[r])]]
    /\ SetPc(r, "get_lock")
    /\ UNCHANGED <<bucketVars, cfg, upstream, req, ctx, cancelled, rt, log,
                   inflight, held, clock, global, perIP, rs, panicking, out>>

\* get: p.mu.Lock()
LkGetLock(r) ==
    /\ pc[r] = "get_lock"
    /\ lk.mapMu = Free
    /\ lk' = [lk EXCEPT !.mapMu = r]
    /\ SetPc(r, "get_body")
    /\ UNCHANGED <<goarch, tb, tbClock, tbHist, lim, cfg, upstream, req, ctx, cancelled, rt, log,
                   inflight, held, clock, global, perIP, rl, rs, panicking, out>>

LkGetBody_fresh(r) ==
    /\ pc[r] = "get_body"
    /\ LET key == rl[r].ip
           b   == NewTokenBucket(cfg.perIPRPS, cfg.perIPBurst, cfg.ttl, clock)
           id  == Len(lim.made) + 1
       IN /\ perIP' = Put(perIP, key, b)
          /\ lim' = [lim EXCEPT
                        !.made = Append(@, [key |-> key, tokens |-> b.tokens,
                                            burst |-> b.burst]),
                        !.idOf = Put(@, key, id),
                        !.touched = Put(@, id, clock),
                        !.held[r] = id]
          /\ lk' = [lk EXCEPT !.mapMu = Free, !.mu = Put(@, id, Free)]
    /\ SetPc(r, "allow_lock")
    /\ UNCHANGED <<goarch, tb, tbClock, tbHist, cfg, upstream, req, ctx, cancelled, rt, log,
                   inflight, held, clock, global, rl, rs, panicking, out>>

\* get: look the key up, make its bucket if absent; deferred p.mu.Unlock()
LkGetBody(r) ==
    /\ pc[r] = "get_body"
    /\ LET key == rl[r].ip
           new == key \notin DOMAIN perIP
           m   == PerKeyGet(perIP, key, clock)
           id  == IF new THEN Len(lim.made) + 1 ELSE lim.idOf[key]
       IN /\ perIP' = m
          /\ lim' = [lim EXCEPT
                        !.made = IF new
                                 THEN Append(@, [key |-> key, tokens |-> m[key].tokens,
                                                 burst |-> m[key].burst])
                                 ELSE @,
                        !.idOf = IF new THEN Put(@, key, id) ELSE @,
                        !.touched = IF new THEN Put(@, id, clock) ELSE @,
                        !.held[r] = id]
          /\ lk' = [lk EXCEPT !.mapMu = Free,
                              !.mu = IF new THEN Put(@, id, Free) ELSE @]
    /\ SetPc(r, "allow_lock")
    /\ UNCHANGED <<goarch, tb, tbClock, tbHist, cfg, upstream, req, ctx, cancelled, rt, log,
                   inflight, held, clock, global, rl, rs, panicking, out>>

\* allow: b.mu.Lock() on the bucket get returned
LkAllowLock(r) ==
    /\ pc[r] = "allow_lock"
    /\ lk.mu[lim.held[r]] = Free
    /\ lk' = [lk EXCEPT !.mu[lim.held[r]] = r]
    /\ SetPc(r, "allow_body")
    /\ UNCHANGED <<goarch, tb, tbClock, tbHist, lim, cfg, upstream, req, ctx, cancelled, rt, log,
                   inflight, held, clock, global, perIP, rl, rs, panicking, out>>

LkAllowBody_relock(r) ==
    /\ pc[r] = "allow_body"
    /\ SetPc(r, "get_lock")
    /\ UNCHANGED <<bucketVars, cfg, upstream, req, ctx, cancelled, rt, log,
                   inflight, held, clock, global, perIP, rl, rs, panicking, out>>

LkAllowBody_shared(r) ==
    /\ pc[r] = "allow_body"
    /\ LET id  == lim.held[r]
           b   == HeldBucket(id)
           a   == Allow(b, rl[r].now)
           rec == [key |-> rl[r].ip, id |-> id, now |-> rl[r].now,
                   mapped |-> MappedKey(id) # {}, ok |-> a.ok,
                   racing |-> \E x \in Reqs \ {r} :
                                 pc[x] = "allow_lock" /\ lim.held[x] = id]
       IN /\ perIP' = [k \in DOMAIN perIP |-> a.b]
          /\ lim' = [lim EXCEPT !.calls = Append(@, rec), !.held[r] = 0,
                                !.touched[id] = clock]
          /\ lk' = [lk EXCEPT !.mu[id] = Free]
    /\ SetPc(r, "idle")
    /\ UNCHANGED <<goarch, tb, tbClock, tbHist, cfg, upstream, req, ctx, cancelled, rt, log,
                   inflight, held, clock, global, rl, rs, panicking, out>>

\* allow: refill, last_seen, deduct; deferred b.mu.Unlock()
LkAllowBody(r) ==
    /\ pc[r] = "allow_body"
    /\ LET id  == lim.held[r]
           b   == HeldBucket(id)
           a   == Allow(b, rl[r].now)
           rec == [key |-> rl[r].ip, id |-> id, now |-> rl[r].now,
                   mapped |-> MappedKey(id) # {}, ok |-> a.ok,
                   racing |-> \E x \in Reqs \ {r} :
                                 pc[x] = "allow_lock" /\ lim.held[x] = id]
       IN /\ IF MappedKey(id) # {}
             THEN /\ perIP' = [perIP EXCEPT ![rl[r].ip] = a.b]
                  /\ lim' = [lim EXCEPT !.calls = Append(@, rec), !.held[r] = 0,
                                        !.touched[id] = clock]
             ELSE /\ perIP' = perIP
                  /\ lim' = [lim EXCEPT !.calls = Append(@, rec), !.held[r] = 0,
                                        !.touched[id] = clock, !.orphans[id] = a.b]
          /\ lk' = [lk EXCEPT !.mu[id] = Free]
    /\ SetPc(r, "idle")
    /\ UNCHANGED <<goarch, tb, tbClock, tbHist, cfg, upstream, req, ctx, cancelled, rt, log,
                   inflight, held, clock, global, rl, rs, panicking, out>>

\* cleanupLoop: a tick of the ticker (one per period) is received from t.C,
\* at the instant it fires or later; now := time.Now()
SwTick ==
    /\ lk.sw = "idle"
    /\ clock >= (lk.passes + 1) * SweepPeriod
    /\ lk' = [lk EXCEPT !.sw = "map_lock", !.now = clock]
    /\ UNCHANGED <<goarch, tb, tbClock, tbHist, lim, cfg, upstream, req, pc, ctx, cancelled, rt,
                   log, inflight, held, clock, global, perIP, rl, rs, panicking, out>>

\* cleanupLoop: p.mu.Lock(); the range over p.buckets starts
SwLockMap ==
    /\ lk.sw = "map_lock"
    /\ lk.mapMu = Free
    /\ lk' = [lk EXCEPT !.mapMu = Sweeper, !.sw = "range", !.todo = DOMAIN perIP,
                        !.seen = << >>, !.gone = {}]
    /\ UNCHANGED <<goarch, tb, tbClock, tbHist, lim, cfg, upstream, req, pc, ctx, cancelled, rt,
                   log, inflight, held, clock, global, perIP, rl, rs, panicking, out>>

\* cleanupLoop: the range yields the next entry; b.mu.Lock() is called
SwPick ==
    /\ lk.sw = "range"
    /\ \E k \in lk.todo : lk' = [lk EXCEPT !.cur = k, !.sw = "b_lock"]
    /\ UNCHANGED <<goarch, tb, tbClock, tbHist, lim, cfg, upstream, req, pc, ctx, cancelled, rt,
                   log, inflight, held, clock, global, perIP, rl, rs, panicking, out>>

\* cleanupLoop: b.mu.Lock() returns; seen := b.lastSeen; ttl := b.ttl
SwLockBucket ==
    /\ lk.sw = "b_lock"
    /\ lk.mu[lim.idOf[lk.cur]] = Free
    /\ lk' = [lk EXCEPT !.mu[lim.idOf[lk.cur]] = Sweeper, !.sw = "b_held",
                        !.seen = Put(@, lk.cur, perIP[lk.cur].lastSeen)]
    /\ UNCHANGED <<goarch, tb, tbClock, tbHist, lim, cfg, upstream, req, pc, ctx, cancelled, rt,
                   log, inflight, held, clock, global, perIP, rl, rs, panicking, out>>

\* cleanupLoop: b.mu.Unlock(); delete(p.buckets, k) when the entry is expired
SwInspect ==
    /\ lk.sw = "b_held"
    /\ LET k    == lk.cur
           id   == lim.idOf[k]
           dead == Expired([perIP[k] EXCEPT !.lastSeen = lk.seen[k]], lk.now)
       IN /\ lk' = [lk EXCEPT !.mu[id] = Free, !.sw = "range", !.todo = @ \ {k},
                              !.cur = "",
                              !.gone = IF dead THEN @ \cup {k} ELSE @]
          /\ perIP' = IF dead THEN [x \in DOMAIN perIP \ {k} |-> perIP[x]] ELSE perIP
          /\ lim' = IF dead THEN [lim EXCEPT !.orphans = Put(@, id, perIP[k])] ELSE lim
    /\ UNCHANGED <<goarch, tb, tbClock, tbHist, cfg, upstream, req, pc, ctx, cancelled, rt,
                   log, inflight, held, clock, global, rl, rs, panicking, out>>

\* cleanupLoop: the range is over; p.mu.Unlock()
SwUnlockMap ==
    /\ lk.sw = "range"
    /\ lk.todo = {}
    /\ lk' = [lk EXCEPT !.mapMu = Free, !.sw = "idle", !.passes = @ + 1]
    /\ UNCHANGED <<goarch, tb, tbClock, tbHist, lim, cfg, upstream, req, pc, ctx, cancelled, rt,
                   log, inflight, held, clock, global, perIP, rl, rs, panicking, out>>

\* the steps that read time.Now(): a caller entering WithRateLimit, get
\* making a bucket, cleanupLoop taking a tick
LkClockRead ==
    \/ ENABLED SwTick
    \/ \E r \in Reqs :
          \/ ENABLED LkCall(r)
          \/ pc[r] = "get_body" /\ rl[r].ip \notin DOMAIN perIP

\* time passes; it is observed only by the steps that read the clock
LkTick ==
    /\ clock < MaxLkClock
    /\ LkClockRead
    /\ clock' = clock + 1
    /\ UNCHANGED <<bucketVars, cfg, upstream, req, pc, ctx, cancelled, rt, log,
                   inflight, held, global, perIP, rl, rs, panicking, out>>

\* rate 1, burst 1, and every limiter_ttl
LockConfigs ==
    { [DefaultCfg EXCEPT !.perIPRPS = Unit, !.perIPBurst = Unit, !.ttl = t] :
        t \in 0..MaxTtl }

InitLocks ==
    /\ tbClock = 0
    /\ tb = NewTokenBucket(Unit, Unit, 0, 0)
    /\ tbHist = << >>
    /\ goarch = "amd64"
    /\ cfg \in LockConfigs
    /\ upstream = UpstreamStatuses
    /\ \E k \in LimKeys :
          req = [r \in Reqs |->
                   [DefaultReq EXCEPT !.remote.host = IF r = 1 THEN "10.0.0.1" ELSE k]]
    /\ pc = [r \in Reqs |-> "idle"]
    /\ ctx = [r \in Reqs |-> NoRidCtx]
    /\ cancelled = [r \in Reqs |-> FALSE]
    /\ rt = [r \in Reqs |-> RT0]
    /\ log = [r \in Reqs |-> << >>]
    /\ InitPipe

NextLocks ==
    \/ LkTick
    \/ SwTick
    \/ SwLockMap
    \/ SwPick
    \/ SwLockBucket
    \/ SwInspect
    \/ SwUnlockMap
    \/ \E r \in Reqs :
        \/ LkCall(r)
        \/ LkGetLock(r)
        \/ LkGetBody(r)
        \/ LkAllowLock(r)
        \/ LkAllowBody(r)

SpecLocks == InitLocks /\ [][NextLocks]_vars

\* ---------------------------------------------------------- SpecClientIP
\* One request through WithRateLimit, for X-Forwarded-For values and peer
\* addresses given as the strings the server hands to the handler.
XffHeaders ==
    {"", "10.0.0.1", "10.0.0.2 ,10.0.0.1", "\t10.0.0.2 , bogus", "bogus, 10.0.0.2",
     ",10.0.0.2", " , 10.0.0.2", "10.0.0.2;10.0.0.1", "1.2.3, 10.0.0.2, 10.0.0.1", "::1"}

RemoteAddrs ==
    {"10.0.0.1:4711", "[::1]:4711", "10.0.0.1", "gateway:4711", "@", "10.0.0.1:"}

ClientRequest(h, a) ==
    [DefaultReq EXCEPT !.xff = HeaderEntries(h), !.remote = SplitHostPort(a)]

InitClientIP ==
    /\ tbClock = 0
    /\ tb = NewTokenBucket(Unit, Unit, 0, 0)
    /\ tbHist = << >>
    /\ goarch = "amd64"
    /\ cfg = DefaultCfg
    /\ upstream = UpstreamStatuses
    /\ \E h \in XffHeaders, a \in RemoteAddrs :
          req = [r \in Reqs |-> IF r = 1 THEN ClientRequest(h, a) ELSE DefaultReq]
    /\ pc = [r \in Reqs |-> IF r = 1 THEN "ratelimit" ELSE "idle"]
    /\ ctx = [r \in Reqs |-> NoRidCtx]
    /\ cancelled = [r \in Reqs |-> FALSE]
    /\ rt = [r \in Reqs |-> RT0]
    /\ log = [r \in Reqs |-> << >>]
    /\ InitPipe

NextClientIP ==
    \E r \in Reqs :
        \/ RateLimitEnter(r)
        \/ GlobalAllow(r)
        \/ PerIPAllow(r)

SpecClientIP == InitClientIP /\ [][NextClientIP]_vars

\* ----------------------------------------------------------- SpecBackoff
\* sleepBackoff called as RoundTrip calls it, with attempt 0, 1, 2, ... for
\* every configured base and cap, in a binary built for either architecture.
BackoffBases == {-1, 0, 1, 150, 1500, 3000}

BackoffCaps == {-1, 0, 1, 1500, 2000}

SleepBackoff(r) ==
    /\ pc[r] = "backoff"
    /\ rt[r].i <= MaxRetryIndex
    /\ rt' = [rt EXCEPT ![r].i = @ + 1,
                        ![r].sleeps = Append(@,
                            [Sleep(TimerDelay(cfg.baseDelay, cfg.maxDelay, rt[r].i))
                                EXCEPT !.woke = "timer"])]
    /\ UNCHANGED <<bucketVars, pipeVars, cfg, upstream, req, pc, ctx, cancelled, log>>

InitBackoff ==
    /\ tbClock = 0
    /\ tb = NewTokenBucket(Unit, Unit, 0, 0)
    /\ tbHist = << >>
    /\ goarch \in {"amd64", "arm64"}
    /\ cfg \in { [DefaultCfg EXCEPT !.baseDelay = b, !.maxDelay = m] :
                    b \in BackoffBases, m \in BackoffCaps }
    /\ upstream = UpstreamStatuses
    /\ req = [r \in Reqs |-> DefaultReq]
    /\ pc = [r \in Reqs |-> IF r = 1 THEN "backoff" ELSE "idle"]
    /\ ctx = [r \in Reqs |-> NoRidCtx]
    /\ cancelled = [r \in Reqs |-> FALSE]
    /\ rt = [r \in Reqs |-> RT0]
    /\ log = [r \in Reqs |-> << >>]
    /\ InitPipe

NextBackoff == \E r \in Reqs : SleepBackoff(r)

SpecBackoff == InitBackoff /\ [][NextBackoff]_vars

\* ------------------------------------------------------------ SpecBucket
\* One TokenBucket built by NewTokenBucket from any (rate, burst), then a
\* sequence of allow calls whose timestamps are read from a monotone clock.
rtVars == <<cfg, upstream, req, pc, ctx, cancelled, rt, log, pipeVars>>

InitIdle ==
    /\ cfg = DefaultCfg
    /\ upstream = UpstreamStatuses
    /\ req = [r \in Reqs |-> DefaultReq]
    /\ pc = [r \in Reqs |-> "idle"]
    /\ ctx = [r \in Reqs |-> NoRidCtx]
    /\ cancelled = [r \in Reqs |-> FALSE]
    /\ rt = [r \in Reqs |-> RT0]
    /\ log = [r \in Reqs |-> << >>]
    /\ InitPipe

InitBucket ==
    /\ tbClock = 0
    /\ tb \in { NewTokenBucket(rate, burst, 0, 0) : rate \in 0..MaxRate, burst \in 0..MaxBurst }
    /\ tbHist = << >>
    /\ goarch = "amd64"
    /\ InitIdle

BucketTick ==
    /\ tbClock < MaxTime
    /\ tbClock' = tbClock + 1
    /\ UNCHANGED <<tb, tbHist, lim, lk, goarch, rtVars>>

BucketAllow ==
    /\ Len(tbHist) < MaxCalls
    /\ LET a == Allow(tb, tbClock)
       IN /\ tb' = a.b
          /\ tbHist' = Append(tbHist, [t |-> tbClock, ok |-> a.ok])
    /\ UNCHANGED <<tbClock, lim, lk, goarch, rtVars>>

NextBucket == BucketTick \/ BucketAllow

SpecBucket == InitBucket /\ [][NextBucket]_vars

\* ------------------------------------------------------------ SpecStamps
\* One TokenBucket and a sequence of allow calls whose timestamps are in no
\* order: WithRateLimit reads now before the bucket's lock is taken, so a
\* call can carry an instant earlier than the one b.last was set from.
StampAllow ==
    /\ Len(tbHist) < MaxCalls
    /\ \E t \in 0..MaxTime :
          LET a == Allow(tb, t)
          IN /\ tb' = a.b
             /\ tbHist' = Append(tbHist, [t |-> t, ok |-> a.ok])
    /\ UNCHANGED <<tbClock, lim, lk, goarch, rtVars>>

NextStamps == StampAllow

SpecStamps == InitBucket /\ [][NextStamps]_vars

\* ------------------------------------------- claims on the middleware chain
EventsOf(r, msg) == { k \in 1..Len(log[r]) : log[r][k].msg = msg }

\* r is between a successful sem.acquire and the sem.release deferred for it
InGate ==
    {"ratelimit", "rl_global", "rl_perip", "router", "proxy", "roundtrip",
     "rt_direct", "rt_try", "rt_sleep", "rt_ret", "proxy_copy", "ret_throttle"}

Finished == \A r \in Reqs : pc[r] \in {"idle", "done"}

\* C1: the requests between a successful acquire and its release never
\* number more than N = max(1, max_in_flight); the taken permits are exactly
\* those requests, on every exit path (return, 429, 404, 502, panic), so the
\* count is 0 again once all admitted requests have finished.
C1_GateBound ==
    /\ Cardinality({ r \in Reqs : pc[r] \in InGate }) <= Max(1, cfg.maxInFlight)
    /\ inflight = Cardinality({ r \in Reqs : pc[r] \in InGate })
    /\ \A r \in Reqs : held[r] <=> pc[r] \in InGate
    /\ Finished => inflight = 0

\* both requests are over, one through a panic and one through a 429
C1_Witness ==
    /\ \A r \in Reqs : pc[r] = "done"
    /\ \E r1, r2 \in Reqs :
          /\ panicking[r1] # "no"
          /\ rs[r2].w.status = 429
    /\ inflight = 0

\* C6 as stated: a panic raised before anything was written ends in status
\* 500, body 'internal server error' and exactly one panic_recovered event,
\* also for a request that accepts gzip.
C6_Panic500 ==
    \A r \in Reqs :
        pc[r] = "done" /\ panicking[r] = "early" =>
            /\ rs[r].w.status = 500
            /\ rs[r].w.body = <<Plain("internal server error")>>
            /\ Cardinality(EventsOf(r, "panic_recovered")) = 1

\* C7 as stated: after a panic raised when the status had already been
\* written, WithRecover makes no second WriteHeader call and appends nothing.
C7_NoSecondStatusWrite ==
    \A r \in Reqs :
        panicking[r] = "late" =>
            /\ rs[r].w.superfluous = 0
            /\ \A k \in 1..Len(rs[r].w.body) :
                  rs[r].w.body[k] # Plain("internal server error")

\* C8 as stated: a served request has logged exactly one request_started
\* and exactly one request_completed, with the same request_id, whichever
\* way the inner stages ended.
C8_StartedAndCompleted ==
    \A r \in Reqs :
        /\ Cardinality(EventsOf(r, "request_started")) <= 1
        /\ Cardinality(EventsOf(r, "request_completed")) <= 1
        /\ pc[r] = "done" =>
              /\ Cardinality(EventsOf(r, "request_started")) = 1
              /\ Cardinality(EventsOf(r, "request_completed")) = 1
              /\ \A i \in EventsOf(r, "request_started") :
                 \A j \in EventsOf(r, "request_completed") :
                    log[r][i].rid = log[r][j].rid

\* C9 as stated: every event logged for a request carries the same
\* non-empty request_id, which is the X-Request-ID response header and the
\* inbound X-Request-ID when that was not empty.
C9_OneRequestID ==
    \A r \in Reqs : \A k \in 1..Len(log[r]) :
        /\ log[r][k].rid # ""
        /\ log[r][k].rid = rs[r].w.hdr.xRequestID
        /\ req[r].xRequestID # "" => log[r][k].rid = req[r].xRequestID

IdempotentMethods == {"GET", "HEAD", "OPTIONS", "PUT", "DELETE"}

RetryMsgs == {"proxy_retry", "proxy_retry_5xx"}

RetryEvents(r) == { k \in 1..Len(log[r]) : log[r][k].msg \in RetryMsgs }

\* RoundTrip has returned to its caller
Returned(r) == rt[r].result # "none"

\* r was denied by the limiter named
RateLimitedBy(r, kind) ==
    \E k \in EventsOf(r, "rate_limit_exceeded") : log[r][k].kind = kind

\* r is past next.ServeHTTP of WithRateLimit or of an outer stage
Unwinding == {"ret_throttle", "ret_gzip", "ret_logging", "ret_recover", "done"}

\* the router or a stage behind it has run for r
ReachedRouter(r) ==
    \/ pc[r] \in {"router", "proxy", "roundtrip", "rt_direct", "rt_try", "rt_sleep",
                  "rt_ret", "proxy_copy"}
    \/ out[r] # Out0
    \/ rt[r] # RT0

\* C11: the global bucket is consulted first. A global denial answers 429
\* and leaves the per-key map as it was (no bucket made, no tokens or
\* last_seen changed); a per-key denial answers 429 and leaves the global
\* bucket, which has lost the token this request took, as it is; a denied
\* request reaches neither the router nor an upstream.
C11_GlobalFirst ==
    /\ [](\A r \in Reqs :
            EventsOf(r, "rate_limit_exceeded") # {} =>
                /\ Cardinality(EventsOf(r, "rate_limit_exceeded")) = 1
                /\ pc[r] \in Unwinding
                /\ rs[r].w.status = 429
                /\ ~ReachedRouter(r))
    /\ [][\A r \in Reqs :
            /\ (pc[r] = "rl_global" /\ pc'[r] = "rl_perip") =>
                  /\ perIP' = perIP
                  /\ global'.tokens = AllowRefill(global, rl[r].now).tokens - Unit
            /\ (pc[r] = "rl_global" /\ RateLimitedBy(r, "global")') =>
                  /\ perIP' = perIP
                  /\ global'.tokens = AllowRefill(global, rl[r].now).tokens
            /\ (pc[r] = "rl_perip" /\ RateLimitedBy(r, "per-ip")') =>
                  /\ global' = global
                  /\ ~RateLimitedBy(r, "global")
                  /\ perIP'[rl[r].ip].tokens < Unit]_vars

\* one request was served and the other, with the same key, was denied by
\* the per-key bucket after both had taken a global token
C11_Witness ==
    \E r1, r2 \in Reqs :
        /\ pc[r1] = "done" /\ pc[r2] = "done"
        /\ rs[r1].w.status = 200 /\ rt[r1].calls > 0
        /\ RateLimitedBy(r2, "per-ip") /\ rl[r1].ip = rl[r2].ip
        /\ cfg.globalBurst = 2 * Unit /\ global.tokens = 0

\* C12 as stated: every response with status 429 carries Retry-After: 1.
C12_Every429 ==
    \A r \in Reqs :
        rs[r].w.wrote /\ rs[r].w.status = 429 => rs[r].w.sent.retryAfter = "1"

\* C12 amended: every 429 the rate-limit stage answers carries
\* Retry-After: 1; any other 429 is the answer of an upstream, which
\* RoundTrip returned without retrying and which is forwarded with the
\* upstream's headers, the gateway adding no Retry-After.
C12_RateLimit429 ==
    \A r \in Reqs :
        /\ EventsOf(r, "rate_limit_exceeded") # {} =>
              /\ rs[r].w.wrote /\ rs[r].w.status = 429
              /\ rs[r].w.sent.retryAfter = "1"
        /\ (rs[r].w.status = 429 /\ EventsOf(r, "rate_limit_exceeded") = {}) =>
              /\ rt[r].result = "resp" /\ rt[r].status = 429
              /\ rt[r].tries[Len(rt[r].tries)].outcome = Response(429)
              /\ rs[r].w.sent.retryAfter = ""

\* a request denied by the drained global bucket has been answered
C12_Witness ==
    \E r \in Reqs :
        /\ pc[r] = "done" /\ RateLimitedBy(r, "global")
        /\ rs[r].w.status = 429 /\ rs[r].w.sent.retryAfter = "1"

\* C13 as stated: a request whose context is cancelled before it acquired a
\* permit is answered 408 'request cancelled', never holds a permit, and no
\* inner stage runs for it. (A request that is cancelled and for which
\* RoundTrip has not begun was cancelled while at the gate.)
C13_CancelledAtGate408 ==
    \A r \in Reqs :
        (cancelled[r] /\ rt[r] = RT0 /\ pc[r] # "throttle") =>
            /\ ~held[r]
            /\ pc[r] \in {"ret_gzip", "ret_logging", "ret_recover", "done"}
            /\ rs[r].w.status = 408
            /\ rl[r] = RL0 /\ out[r] = Out0

\* the tries of r so far all ended the way given
AllTries(r, P(_)) ==
    /\ rt[r].tries # << >>
    /\ \A k \in 1..Len(rt[r].tries) : P(rt[r].tries[k].outcome)

Answered5xx(o) == ~o.err /\ o.status >= 500 /\ o.status <= 599

FailedTransport(o) == o.err

\* idempotent method, and no body or a body factory
Retryable(q) ==
    q.method \in IdempotentMethods /\ (~q.hasBody \/ q.getBody # "nil")

\* what the client holds of a body made of the one message msg
BodyOf(r, msg) ==
    IF rs[r].gz.active THEN <<GzHeader, GzData(<<msg>>)>> ELSE <<Plain(msg)>>

\* C14: for an idempotent retryable request whose every try is answered
\* 5xx, RoundTrip makes exactly max(1, attempts) tries, logs one
\* proxy_retry_5xx per try but the last and no proxy_retry, and returns the
\* last response undrained; the client receives that status, not 502.
C14_Exhausted5xx ==
    \A r \in Reqs :
        (Retryable(req[r]) /\ AllTries(r, Answered5xx)) =>
            LET A == Max(1, cfg.attempts)
                T == rt[r].tries
            IN  /\ Len(T) <= A /\ rt[r].calls = Len(T)
                /\ EventsOf(r, "proxy_retry") = {}
                /\ EventsOf(r, "proxy_error") = {}
                /\ \A k \in 1..Len(T) : T[k].drained <=> k < A
                /\ Cardinality(EventsOf(r, "proxy_retry_5xx")) = Min(Len(T), A - 1)
                /\ Returned(r) <=> Len(T) = A
                /\ Returned(r) =>
                      /\ rt[r].result = "resp"
                      /\ rt[r].status = T[A].outcome.status
                /\ rs[r].w.wrote =>
                      /\ Returned(r)
                      /\ rs[r].w.status = T[A].outcome.status
                      /\ rs[r].w.status # 502

\* three tries answered 500, 599, 500 and the client has the last status
C14_Witness ==
    \E r \in Reqs :
        /\ cfg.attempts = 3 /\ pc[r] = "done"
        /\ Retryable(req[r]) /\ AllTries(r, Answered5xx)
        /\ rt[r].tries[2].outcome = Response(599)
        /\ Cardinality(EventsOf(r, "proxy_retry_5xx")) = 2
        /\ rs[r].w.status = 500

\* C15: for an idempotent retryable request whose context is never
\* cancelled and whose every try fails in the transport, RoundTrip makes
\* exactly max(1, attempts) tries and logs one proxy_retry per try but the
\* last; the error then reaches the error handler, which logs proxy_error
\* once, and the client receives 502 'bad gateway'.
C15_ExhaustedErrors ==
    \A r \in Reqs :
        (Retryable(req[r]) /\ ~cancelled[r] /\ AllTries(r, FailedTransport)) =>
            LET A == Max(1, cfg.attempts)
                T == rt[r].tries
            IN  /\ Len(T) <= A /\ rt[r].calls = Len(T)
                /\ EventsOf(r, "proxy_retry_5xx") = {}
                /\ Cardinality(EventsOf(r, "proxy_retry")) = Min(Len(T), A - 1)
                /\ Returned(r) <=> Len(T) = A
                /\ Returned(r) => rt[r].result = "err"
                /\ Cardinality(EventsOf(r, "proxy_error")) =
                      (IF pc[r] \in Unwinding THEN 1 ELSE 0)
                /\ pc[r] \in Unwinding =>
                      /\ Returned(r) /\ panicking[r] = "no"
                      /\ rs[r].w.status = 502 /\ rs[r].w.superfluous = 0
                /\ pc[r] = "done" => rs[r].w.body = BodyOf(r, "bad gateway")

\* three failed tries: two proxy_retry events, one proxy_error, 502
C15_Witness ==
    \E r \in Reqs :
        /\ cfg.attempts = 3 /\ pc[r] = "done" /\ ~cancelled[r]
        /\ Retryable(req[r]) /\ AllTries(r, FailedTransport)
        /\ rt[r].calls = 3
        /\ Cardinality(EventsOf(r, "proxy_retry")) = 2
        /\ Cardinality(EventsOf(r, "proxy_error")) = 1
        /\ rs[r].w.status = 502

\* the router has dealt with r: it answered, or handed r to a proxy
Handled(r) ==
    \/ out[r] # Out0
    \/ /\ pc[r] = "done" /\ panicking[r] = "no"
       /\ EventsOf(r, "rate_limit_exceeded") = {}
       /\ rs[r].w.status # 408

\* what the router did with r, read from the response and the outbound request
Observed(r) ==
    IF out[r] # Out0 THEN out[r].upstream
    ELSE IF rs[r].w.status = 200 THEN "health"
    ELSE IF rs[r].w.status = 404 THEN "notfound"
    ELSE IF rs[r].w.status = 301 THEN "redirect"
    ELSE "other"

\* path begins with the characters of p
StartsWith(path, p) ==
    \A i \in 1..Len(p) : i <= Len(path) /\ path[i] = p[i]

\* the classification the claim gives: '/', the prefixes '/api/auth' and
\* '/api/onboarding' under '/api/', and 404 for everything else
ClaimedRoute(path) ==
    IF path = <<"/">> THEN "health"
    ELSE IF StartsWith(path, PApi \o <<"/">>) /\ StartsWith(path, PApiAuth) THEN "auth"
    ELSE IF StartsWith(path, PApi \o <<"/">>) /\ StartsWith(path, PApiOnboarding)
         THEN "example"
    ELSE "notfound"

\* the classification of the router: the second proxy is reached by the
\* prefix '/api/example', and '/api' itself is redirected
AmendedRoute(path) ==
    IF path = <<"/">> THEN "health"
    ELSE IF path = PApi THEN "redirect"
    ELSE IF StartsWith(path, PApi \o <<"/">>) /\ StartsWith(path, PApiAuth) THEN "auth"
    ELSE IF StartsWith(path, PApi \o <<"/">>) /\ StartsWith(path, PApiExample)
         THEN "example"
    ELSE "notfound"

\* the router's answers contact no upstream; health answers 'ok'
LocalAnswer(r) ==
    Observed(r) \in {"health", "notfound", "redirect", "other"} =>
        /\ rt[r] = RT0
        /\ Observed(r) = "health" => rs[r].w.body = BodyOf(r, "ok")
        /\ Observed(r) # "other"

C18_GzipResponse ==
    \A r \in Reqs :
        /\ pc[r] \notin {"idle", "requestid", "logging", "gzip"} =>
              (rs[r].gz.active <=>
                  \E i \in 1..Len(req[r].acceptEncoding) - 3 :
                      SubSeq(req[r].acceptEncoding, i, i + 3) = "gzip")
        /\ (rs[r].gz.active /\ rs[r].w.wrote) =>
              /\ rs[r].w.sent.ce /\ ~rs[r].w.sent.cl
              /\ panicking[r] = "no" =>
                    \A k \in 1..Len(rs[r].w.body) : rs[r].w.body[k].enc # "plain"
        /\ (rs[r].gz.active /\ pc[r] \in {"ret_logging", "ret_recover", "done"}) =>
              rs[r].gz.closed /\ rs[r].gz.buf = << >>

\* C19 as stated: the request the upstream gets has the path of the inbound
\* request without its '/api' prefix.
C19_StripsApiPrefix ==
    \A r \in Reqs :
        out[r] # Out0 =>
            /\ StartsWith(req[r].path, PApi)
            /\ out[r].path = SubSeq(req[r].path, Len(PApi) + 1, Len(req[r].path))

\* C16: with ttl > 0 and the sweeper serving each tick when it fires, a key
\* whose bucket was made or last asked ttl + one sweep period ago is no
\* longer in the map; only the sweeper removes entries, and only entries
\* idle for more than ttl; once removed the key stays absent until a request
\* for it makes a new bucket, and a bucket no allow call has reached yet
\* holds tokens equal to its burst.
C16_IdleEvicted ==
    /\ \A k \in DOMAIN perIP :
          /\ k \in DOMAIN lim.idOf /\ lim.made[lim.idOf[k]].key = k
          /\ (perIP[k].ttl > 0 /\ ~SweepDue) =>
                clock - lim.touched[lim.idOf[k]] < perIP[k].ttl + SweepPeriod
          /\ (\A j \in 1..Len(lim.calls) : lim.calls[j].id # lim.idOf[k]) =>
                perIP[k].tokens = perIP[k].burst
    /\ \A e \in lim.evicted :
          /\ e.ttl > 0 /\ e.now - e.lastSeen > e.ttl
          /\ lim.idOf[e.key] = e.id => e.key \notin DOMAIN perIP
    /\ \A i \in 1..Len(lim.made) :
          /\ lim.made[i].tokens = lim.made[i].burst
          /\ lim.made[i].burst = Max(Unit, cfg.perIPBurst)
          /\ (i \notin { lim.idOf[k] : k \in DOMAIN perIP } /\ cfg.ttl > 0
               /\ \A r \in Reqs : lim.held[r] # i) =>
                \E e \in lim.evicted : e.id = i
    /\ cfg.ttl = 0 => lim.evicted = {}

\* a bucket was evicted, and a later request for its key was admitted by
\* the bucket made anew for it
C16_Witness ==
    \E e \in lim.evicted : \E j \in 1..Len(lim.calls) :
        /\ lim.calls[j].key = e.key /\ lim.calls[j].id > e.id
        /\ lim.calls[j].mapped /\ lim.calls[j].ok
        /\ lim.idOf[e.key] = lim.calls[j].id
        /\ perIP[e.key].tokens = perIP[e.key].burst - Unit

\* the order in which the goroutine of one request moves through the stages
StageOrder ==
    { <<"idle", "requestid">>, <<"requestid", "logging">>, <<"logging", "gzip">>,
      <<"gzip", "throttle">>, <<"throttle", "ratelimit">>, <<"throttle", "ret_gzip">>,
      <<"ratelimit", "rl_global">>, <<"rl_global", "rl_perip">>,
      <<"rl_global", "ret_throttle">>, <<"rl_perip", "router">>,
      <<"rl_perip", "ret_throttle">>, <<"router", "proxy">>, <<"router", "ret_throttle">>,
      <<"proxy", "roundtrip">>, <<"proxy", "ret_throttle">>, <<"roundtrip", "rt_direct">>,
      <<"roundtrip", "rt_try">>, <<"rt_direct", "rt_ret">>, <<"rt_try", "rt_ret">>,
      <<"rt_try", "rt_sleep">>, <<"rt_sleep", "rt_try">>, <<"rt_ret", "proxy_copy">>,
      <<"rt_ret", "ret_throttle">>, <<"proxy_copy", "ret_throttle">>,
      <<"ret_throttle", "ret_gzip">>, <<"ret_gzip", "ret_logging">>,
      <<"ret_logging", "ret_recover">>, <<"ret_recover", "done">> }

\* C20: the stages of one request run in the order recovery, identity,
\* logging, compression, gate, rate limiting, router, proxy; a global or
\* per-key token is deducted only by a request holding a permit; the router
\* or an upstream is reached only by a request that went through identity
\* and logging, holds a permit and was admitted by both limiters.
C20_StageOrder ==
    /\ [](\A r \in Reqs :
            /\ pc[r] \notin {"idle", "requestid"} => ctx[r].hasRid
            /\ pc[r] \notin {"idle", "requestid", "logging"} =>
                  EventsOf(r, "request_started") # {}
            /\ rl[r] # RL0 => pc[r] \notin {"idle", "requestid", "logging", "gzip", "throttle"}
            /\ ReachedRouter(r) =>
                  /\ ctx[r].hasRid
                  /\ EventsOf(r, "request_started") # {}
                  /\ pc[r] \notin Unwinding => held[r]
                  /\ rl[r].ip # "" /\ rl[r].ip \in DOMAIN perIP
                  /\ EventsOf(r, "rate_limit_exceeded") = {}
                  /\ rs[r].w.status # 408)
    /\ [][/\ \A r \in Reqs : pc'[r] # pc[r] => <<pc[r], pc'[r]>> \in StageOrder
          /\ global' # global => \E r \in Reqs : held[r] /\ pc[r] = "rl_global"
          /\ perIP' # perIP => \E r \in Reqs : held[r] /\ pc[r] = "rl_perip"
          /\ \A r \in Reqs :
                (pc'[r] = "router" /\ pc[r] # "router") =>
                    /\ pc[r] = "rl_perip" /\ held[r]
                    /\ perIP'[rl[r].ip].tokens =
                          AllowRefill(PerKeyGet(perIP, rl[r].ip, clock)[rl[r].ip],
                                      rl[r].now).tokens - Unit]_vars

\* with a gate of one permit, one request is copying the upstream body
\* while the other still waits at the gate
C20_Witness ==
    \E r1, r2 \in Reqs :
        /\ cfg.maxInFlight = 0
        /\ pc[r1] = "proxy_copy" /\ held[r1]
        /\ pc[r2] = "throttle" /\ ~held[r2] /\ rl[r2] = RL0

\* ------------------------------------------------- claims on TokenBucket
\* admits of the standalone bucket with timestamp in [a, b]
Admitted(a, b) ==
    Cardinality({ k \in 1..Len(tbHist) : tbHist[k].ok /\ tbHist[k].t >= a /\ tbHist[k].t <= b })

\* C10: with non-decreasing timestamps, the admits whose timestamp lies in a
\* window [a, b] number at most burst + rate * (b - a).
C10_WindowBound ==
    \A a \in 0..MaxTime : \A b \in a..MaxTime :
        Unit * Admitted(a, b) <= tb.burst + tb.rate * (b - a)

\* a run that drained the burst, was denied, waited and was admitted again
C10_Witness ==
    \E i, j, k \in 1..Len(tbHist) :
        /\ i < j /\ j < k
        /\ tbHist[i].ok /\ ~tbHist[j].ok /\ tbHist[k].ok
        /\ tbHist[k].t > tbHist[j].t

C3_RetryableIff ==
    \A r \in Reqs :
        LET retryable == /\ req[r].method \in IdempotentMethods
                         /\ (~req[r].hasBody \/ req[r].getBody # "nil")
        IN  ~retryable => rt[r].calls <= 1 /\ RetryEvents(r) = {}

C5_CancelAbortsRetry ==
    \A r \in Reqs : \A k \in 1..Len(rt[r].sleeps) :
        rt[r].sleeps[k].woke = "ctx" =>
            /\ Len(rt[r].tries) <= k
            /\ \A e \in RetryEvents(r) : log[r][e].attempt <= k

\* C21: retries of one request are sequential and leak-free: every response
\* RoundTrip obtained and did not return has been drained and closed before
\* the next try starts, and the response it returns is the last one
\* obtained, never one that was drained.
C21_DrainedBeforeRetry ==
    \A r \in Reqs :
        LET s == rt[r]
            n == Len(s.tries)
        IN  /\ \A k \in 1..n :
                   (~s.tries[k].outcome.err /\ (k < n \/ s.result # "resp"))
                       => s.tries[k].drained
            /\ s.result = "resp" =>
                   /\ n >= 1
                   /\ ~s.tries[n].outcome.err
                   /\ ~s.tries[n].drained
                   /\ s.status = s.tries[n].outcome.status

C21_Witness ==
    \E r \in Reqs :
        /\ cfg.attempts = 3 /\ req[r].method = "GET"
        /\ rt[r].result = "resp" /\ rt[r].status = 200
        /\ Len(rt[r].tries) = 3
        /\ rt[r].tries[1].outcome = Response(500) /\ rt[r].tries[1].drained
        /\ rt[r].tries[2].outcome = Response(500) /\ rt[r].tries[2].drained
        /\ rt[r].tries[3].outcome = Response(200) /\ ~rt[r].tries[3].drained

\* C22: tokens is in [0, burst] immediately after each allow call, whatever
\* the order of the timestamps; a denied call deducts nothing (the bucket
\* holds what the refill left).
C22_TokensInRange ==
    /\ [](tb.tokens >= 0 /\ tb.tokens <= tb.burst)
    /\ [][ (Len(tbHist') = Len(tbHist) + 1 /\ ~tbHist'[Len(tbHist')].ok)
              => /\ tb'.tokens >= tb.tokens
                 /\ tb'.tokens = AllowRefill(tb, tbHist'[Len(tbHist')].t).tokens ]_vars

\* a call stamped earlier than the one before it, a denial on the empty
\* bucket, and a refill that reached the burst
C22_Witness ==
    /\ Len(tbHist) = MaxCalls
    /\ tb.tokens = 0
    /\ \E i, j \in 1..Len(tbHist) : i < j /\ tbHist[i].t > tbHist[j].t /\ ~tbHist[j].ok
    /\ \E k \in 2..Len(tbHist) :
          /\ ~tbHist[k - 1].ok /\ tbHist[k].ok
          /\ tb.rate * (tbHist[k].t - tbHist[k - 1].t) > tb.burst

\* C23: inside the critical section of allow(now), last is never later
\* than now: every call of global.allow and of a per-key bucket's allow made
\* by WithRateLimit finds, and leaves, last at or before the caller's now.
C23_LastNotAfterNow ==
    [][ \A r \in Reqs :
          /\ GlobalAllow(r) =>
                 global.last <= rl[r].now /\ global'.last <= rl[r].now
          /\ PerIPAllow(r) =>
                 /\ rl[r].ip \in DOMAIN perIP => perIP[rl[r].ip].last <= rl[r].now
                 /\ perIP'[rl[r].ip].last <= rl[r].now ]_vars

\* ------------------------------------- claims on the limiter's mutexes
\* the allow calls made so far on bucket number id, in the order they ran
CallsOn(id) == { j \in 1..Len(lim.calls) : lim.calls[j].id = id }

\* C24: with rate = 1 and burst = 1, two allow calls on the same fresh
\* bucket carrying the same timestamp yield exactly one admit and one deny,
\* however the two callers interleave: the one that takes b.mu first is
\* admitted, the other is denied.
C24_OneAdmitOfTwo ==
    \A i, j \in 1..Len(lim.calls) :
        (/\ i < j
         /\ cfg.perIPRPS = Unit /\ cfg.perIPBurst = Unit
         /\ lim.calls[i].id = lim.calls[j].id
         /\ lim.calls[i].now = lim.calls[j].now
         /\ \A k \in CallsOn(lim.calls[i].id) : k = i \/ k >= j)
            => lim.calls[i].ok /\ ~lim.calls[j].ok

\* both callers were inside allow on the same bucket at once
C24_Witness ==
    /\ Len(lim.calls) = 2
    /\ lim.calls[1].id = lim.calls[2].id /\ lim.calls[1].now = lim.calls[2].now
    /\ lim.calls[1].racing
    /\ lim.calls[1].ok /\ ~lim.calls[2].ok

Threads == Reqs \cup {Sweeper}

\* t has called p.mu.Lock() and not yet returned from it
WantsMap(t) ==
    IF t = Sweeper THEN lk.sw = "map_lock" ELSE pc[t] = "get_lock"

\* t has called b.mu.Lock() and not yet returned from it
WantsBucket(t) ==
    IF t = Sweeper THEN lk.sw = "b_lock" ELSE pc[t] = "allow_lock"

WantedBucket(t) ==
    IF t = Sweeper THEN lim.idOf[lk.cur] ELSE lim.held[t]

\* the holder of the mutex t waits for (Free when t does not wait)
Blocker(t) ==
    IF WantsMap(t) THEN lk.mapMu
    ELSE IF WantsBucket(t) THEN lk.mu[WantedBucket(t)]
    ELSE Free

\* a step of a caller or of the sweeper other than the passing of time
LockStep ==
    \/ SwLockMap \/ SwPick \/ SwLockBucket \/ SwInspect \/ SwUnlockMap
    \/ \E r \in Reqs :
          LkGetLock(r) \/ LkGetBody(r) \/ LkAllowLock(r) \/ LkAllowBody(r)

\* C26: lock order is map lock first, bucket lock second: no goroutine
\* calls p.mu.Lock() while it holds a bucket's mutex, a goroutine that holds
\* both took p.mu first, and the sweeper and the admission callers never
\* deadlock: no set of goroutines wait for mutexes held inside the set, and
\* while any of them is inside get, allow or a pass one of them can step.
C26_LockOrder ==
    /\ [](\A t \in Threads : WantsMap(t) => Holds(t) = {})
    /\ [][ \A t \in Threads :
             (lk'.mapMu = t /\ lk.mapMu # t) => Holds(t) = {} ]_vars
    /\ [](\A S \in SUBSET Threads :
             S # {} => \E t \in S : Blocker(t) \notin S)
    /\ []((lk.sw \notin {"idle", "map_lock"} \/ \E r \in Reqs : pc[r] # "idle")
             => ENABLED LockStep)
    /\ [](lk.sw = "map_lock" /\ (\A r \in Reqs : pc[r] = "idle") => ENABLED LockStep)

\* a caller waits for p.mu, held by the sweeper, which waits for the mutex
\* of a bucket another caller is inside allow on
C26_Witness ==
    \E r1, r2 \in Reqs :
        /\ pc[r1] = "get_lock" /\ lk.mapMu = Sweeper
        /\ lk.sw = "b_lock" /\ lk.mu[lim.idOf[lk.cur]] = r2
        /\ pc[r2] = "allow_body"

\* C27: the sweeper never holds the map lock while it holds or waits for a
\* bucket lock.
C27_SweeperLocksApart ==
    lk.mapMu = Sweeper => lk.sw \notin {"b_lock", "b_held"}

\* -------------------------------------------------- claims on sleepBackoff
\* min(max, base * 2^i) as the formula of the spec gives it for the
\* configured values, for base >= 0
ClaimedDelay(base, max, i) ==
    IF base = 0 THEN Min(max, 0)
    ELSE IF max <= 0 THEN max
    ELSE IF Exceeds(base, i, max) THEN max
    ELSE base * Pow2(i)

\* C28: the delay slept before retry i + 1 is min(max_backoff,
\* base_backoff * 2^i) for every i and every configured base and cap: never
\* negative, never above max_backoff, non-decreasing in i.
C28_BackoffFormula ==
    \A r \in Reqs : \A k \in 1..Len(rt[r].sleeps) :
        LET d == rt[r].sleeps[k].delay
        IN  /\ d >= 0
            /\ d <= cfg.maxDelay
            /\ cfg.baseDelay >= 0
            /\ d = ClaimedDelay(cfg.baseDelay, cfg.maxDelay, k - 1)
            /\ k > 1 => rt[r].sleeps[k - 1].delay <= d

\* ---------------------------------------------- claims on NewTokenBucket
\* C29: a constructed TokenBucket has rate at least 1 and burst at least 1,
\* whatever (rate, burst) it was constructed from, and starts with tokens
\* equal to its burst.
C29_ConstructionClamps ==
    /\ tb.rate >= Unit
    /\ tb.burst >= Unit
    /\ tbHist = << >> => tb.tokens = tb.burst

\* --------------------------------------------- claims on ExtractClientIP
\* the text of h before its first comma (all of h when it has none)
FirstEntry(h) ==
    IF \E i \in 1..Len(h) : SubSeq(h, i, i) = ","
    THEN SubSeq(h, 1, (CHOOSE i \in 1..Len(h) :
                         /\ SubSeq(h, i, i) = ","
                         /\ \A j \in 1..(i - 1) : SubSeq(h, j, j) # ",") - 1)
    ELSE h

\* the host part of the peer address a
HostPart(a) == SplitHostPort(a).host

\* the key the claim names for header value h and peer address a
ClaimedKey(h, a) ==
    IF h # "" /\ TrimRight(TrimLeft(FirstEntry(h))) \in ValidIPs
    THEN TrimRight(TrimLeft(FirstEntry(h)))
    ELSE IF HostPart(a) \in ValidIPs THEN HostPart(a)
    ELSE "unknown"

\* C30: the key used for per-key limiting is the first comma-separated entry
\* of X-Forwarded-For, trimmed, when it is a valid IP literal; otherwise the
\* host part of the peer address when that is a valid IP; otherwise
\* "unknown"; a later entry of the header is never the source of the key.
C30_ClientKey ==
    \A r \in Reqs : \A h \in XffHeaders : \A a \in RemoteAddrs :
        (req[r] = ClientRequest(h, a) /\ pc[r] \notin {"idle", "ratelimit"}) =>
            /\ rl[r].ip = ClaimedKey(h, a)
            /\ DOMAIN perIP \subseteq {ClaimedKey(h, a)}
            /\ pc[r] = "router" => DOMAIN perIP = {ClaimedKey(h, a)}
            /\ (h # "" /\ TrimRight(TrimLeft(FirstEntry(h))) \notin ValidIPs) =>
                   rl[r].ip \in {HostPart(a), "unknown"}

\* a header whose first entry is invalid and whose second is a valid IP:
\* the bucket is taken under the peer's address
C30_Witness ==
    \E r \in Reqs :
        /\ req[r] = ClientRequest("bogus, 10.0.0.2", "10.0.0.1:4711")
        /\ pc[r] = "router"
        /\ DOMAIN perIP = {"10.0.0.1"}

\* ------------------------------------------- claims on the limiter map
\* the rate and burst NewTokenBucket gives every per-key bucket
KeyRate == NewTokenBucket(cfg.perIPRPS, cfg.perIPBurst, cfg.ttl, 0).rate

KeyBurst == NewTokenBucket(cfg.perIPRPS, cfg.perIPBurst, cfg.ttl, 0).burst

\* admits for a key by perIP.allow calls with timestamp in [a, b]
KeyAdmitted(key, a, b) ==
    Cardinality({ j \in 1..Len(lim.calls) :
                    /\ lim.calls[j].key = key /\ lim.calls[j].ok
                    /\ lim.calls[j].now >= a /\ lim.calls[j].now <= b })

\* C31: for one client key, the requests perIP.allow admits with timestamps
\* in a window [a, b] number at most burst + rate * (b - a), eviction of the
\* key's bucket and a fresh bucket for it inside the window included.
C31_KeyWindowBound ==
    \A key \in LimKeys : \A a \in 0..clock : \A b \in a..clock :
        Unit * KeyAdmitted(key, a, b) <= KeyBurst + KeyRate * (b - a)

\* C32: no admission is charged to a discarded bucket: the bucket on which
\* allow deducts a token is, at the deduction, the bucket the map holds for
\* the key (and so is the one the next request for the key is given), in
\* every interleaving of get and allow with a sweep pass.
C32_ChargedToMappedBucket ==
    \A j \in 1..Len(lim.calls) : lim.calls[j].ok => lim.calls[j].mapped

\* callers that are between get's return and the end of allow
Holding == { r \in Reqs : pc[r] \in {"allow_lock", "allow_body"} }

\* admits on bucket id by calls stamped t that no call with a later stamp
\* on that bucket came before
AdmittedAt(id, t) ==
    Cardinality({ j \in 1..Len(lim.calls) :
                    /\ lim.calls[j].id = id /\ lim.calls[j].ok /\ lim.calls[j].now = t
                    /\ \A i \in 1..(j - 1) :
                          lim.calls[i].id = id => lim.calls[i].now <= t })

\* C33: requests for a key that is not in the map all obtain one bucket: a
\* second bucket is made for a key only after the sweeper deleted the first,
\* callers holding different buckets of one key hold at most one that was
\* not deleted, the map's entry is the key's newest bucket, and the admits
\* on a bucket at one instant number at most burst.
C33_OneBucketPerKey ==
    /\ \A i, j \in 1..Len(lim.made) :
          (i < j /\ lim.made[i].key = lim.made[j].key) => i \in DOMAIN lim.orphans
    /\ \A r \in Holding :
          /\ lim.made[lim.held[r]].key = rl[r].ip
          /\ \A x \in Holding :
                (rl[x].ip = rl[r].ip /\ lim.held[x] < lim.held[r]) =>
                    lim.held[x] \in DOMAIN lim.orphans
    /\ \A k \in DOMAIN perIP :
          /\ lim.idOf[k] \notin DOMAIN lim.orphans
          /\ \A i \in 1..Len(lim.made) : lim.made[i].key = k => i <= lim.idOf[k]
    /\ \A i \in 1..Len(lim.made) : \A t \in 0..clock :
          Unit * AdmittedAt(i, t) <= KeyBurst

\* two requests for an absent key were inside WithRateLimit together, got
\* the one bucket made for the key, and one of them was admitted
C33_Witness ==
    /\ Len(lim.made) = 1
    /\ Len(lim.calls) = 2
    /\ lim.calls[1].racing
    /\ lim.calls[1].id = lim.calls[2].id
    /\ lim.calls[1].now = lim.calls[2].now
    /\ lim.calls[1].ok /\ ~lim.calls[2].ok

\* C34: an admission attempt for key k changes only the bucket of k and, on
\* first use, adds the entry of k; the buckets of the other keys keep their
\* tokens, last and last_seen; a sweep pass changes no field of a bucket
\* that stays in the map, and it alone removes entries.
C34_PerKeyIsolation ==
    [][ /\ \A k \in DOMAIN perIP \cap DOMAIN perIP' :
              perIP'[k] # perIP[k] =>
                  \E r \in Reqs :
                      /\ LkAllowBody(r)
                      /\ rl[r].ip = k /\ lim.held[r] = lim.idOf[k]
        /\ \A k \in DOMAIN perIP' \ DOMAIN perIP :
              \E r \in Reqs :
                  /\ LkGetBody(r)
                  /\ rl[r].ip = k
                  /\ perIP'[k] = NewTokenBucket(cfg.perIPRPS, cfg.perIPBurst,
                                                cfg.ttl, clock)
        /\ \A k \in DOMAIN perIP \ DOMAIN perIP' :
              SwInspect /\ lk.cur = k
        /\ \A i \in DOMAIN lim.orphans :
              lim.orphans'[i] # lim.orphans[i] =>
                  \E r \in Reqs : LkAllowBody(r) /\ lim.held[r] = i
        /\ (SwTick \/ SwLockMap \/ SwPick \/ SwLockBucket \/ SwInspect \/ SwUnlockMap) =>
              \A k \in DOMAIN perIP' : perIP'[k] = perIP[k]
      ]_vars

\* both keys have a bucket, a sweep pass has run, the one request served so
\* far was admitted on its key's bucket and the other key's bucket is as
\* get made it
C34_Witness ==
    /\ DOMAIN perIP = LimKeys
    /\ lk.passes >= 1
    /\ Len(lim.calls) = 1
    /\ lim.calls[1].ok /\ lim.calls[1].mapped
    /\ perIP[lim.calls[1].key].tokens = KeyBurst - Unit
    /\ \A k \in LimKeys \ {lim.calls[1].key} :
          /\ perIP[k].tokens = KeyBurst
          /\ perIP[k].lastSeen = perIP[k].last

\* ------------------------------------------------- claims on the gate
\* r has been answered 408 by WithThrottle
Answered408(r) ==
    /\ cancelled[r] /\ ~held[r]
    /\ pc[r] = "ret_gzip"
    /\ rs[r].w.status = 408

\* C35: under fair scheduling, with inner stages that end, a request
\* waiting at the gate acquires a permit or, once cancelled, is answered
\* 408; the permits taken are always those of the requests in flight, so a
\* waiter is not left at a gate with a free permit.
C35_GateLiveness ==
    /\ \A r \in Reqs : (pc[r] = "throttle") ~> (held[r] \/ Answered408(r))
    /\ \A r \in Reqs :
          (pc[r] = "throttle" /\ inflight < SemCapacity(cfg.maxInFlight))
              ~> (pc[r] # "throttle")
    /\ [](inflight = Cardinality({ r \in Reqs : held[r] }))

\* a request waits at the full gate, not cancelled, while the holder of the
\* permit has finished its inner stages and is about to release it
C35_Witness ==
    \E r, x \in Reqs :
        /\ pc[r] = "throttle" /\ ~cancelled[r]
        /\ inflight = SemCapacity(cfg.maxInFlight)
        /\ held[x] /\ pc[x] = "ret_throttle"
====
